---- MODULE Spec2Model ----
(***************************************************************************)
(* runs-on/snapshot: the restore phase (RestoreSnapshot) and the create    *)
(* phase (CreateSnapshot) of the snapshot action, the entry points that    *)
(* invoke them, and the state file that links the two phases.              *)
(*                                                                         *)
(* Strings the code inspects character by character (mount points) are     *)
(* sequences of one-character strings.  The cloud API and the host         *)
(* commands are the environment: every call has its outcomes drawn with    *)
(* \E, and its documented effect on success.                               *)
(***************************************************************************)
EXTENDS Integers, Sequences, FiniteSets, TLC

\* ------------------------------------------------------------------ bounds
\* Largest volume size (GiB) of a configuration or of a snapshot.
MaxSize == 2
\* Largest creation time of a snapshot of the account.
MaxTime == 2
\* Longest DescribeSnapshots response of the selection specification.
MaxSnaps == 3

\* --------------------------------------------------------------- constants
snapshotTagKeyArch == "runs-on-snapshot-arch"
snapshotTagKeyPlatform == "runs-on-snapshot-platform"
snapshotTagKeyBranch == "runs-on-snapshot-branch"
snapshotTagKeyRepository == "runs-on-snapshot-repository"
snapshotTagKeyVersion == "runs-on-snapshot-version"
nameTagKey == "Name"
ttlTagKey == "runs-on-delete-after"
suggestedDeviceName == "/dev/sdf"

\* strings.HasPrefix(mountPoint, "/var/lib/docker")
DockerDataDir ==
    <<"/", "v", "a", "r", "/", "l", "i", "b", "/", "d", "o", "c", "k", "e", "r">>

HasPrefix(s, prefix) ==
    /\ Len(s) >= Len(prefix)
    /\ SubSeq(s, 1, Len(prefix)) = prefix

IsDockerPath(mountPoint) == HasPrefix(mountPoint, DockerDataDir)

\* Mount points of the runs: the engine's data directory and another path.
MountPoints == {DockerDataDir, <<"/", "m", "n", "t">>}

\* Branch names of the runs, character by character: the job's branch and
\* the repository's default.
TargetBranch == <<"f", "e", "a", "t", "u", "r", "e", "-", "x">>
MainBranch == <<"m", "a", "i", "n">>

\* -------------------------------------------------------------- the config
\* The action's inputs and environment, as NewConfigFromInputs reads them.
ActionInputs ==
    [ path : MountPoints,
      wait_for_completion : {"", "false", "true"},
      volume_size : 1..MaxSize,
      GITHUB_REF_NAME : {TargetBranch},
      runnerDefaultBranch : {<<>>, MainBranch, TargetBranch} ]

\* NewConfigFromInputs: Config.DefaultBranch is never assigned (only
\* RunnerConfig.DefaultBranch is), so it keeps its zero value, the empty
\* string <<>>; so do VolumeName and SnapshotName.
NewConfigFromInputs(i) ==
    [ Path |-> i.path,
      Version |-> "v1",
      WaitForCompletion |-> (i.wait_for_completion # "false"),
      VolumeSize |-> i.volume_size,
      GithubRef |-> i.GITHUB_REF_NAME,
      GithubRepository |-> "org/repo",
      DefaultBranch |-> <<>>,
      VolumeName |-> <<>>,
      SnapshotName |-> <<>>,
      CustomTags |-> << [Key |-> "team", Value |-> "ci"] >>,
      RunnerConfig |-> [DefaultBranch |-> i.runnerDefaultBranch] ]

arch == "amd64"
platform == "linux"

getSnapshotTagValue(c) == c.GithubRef
getSnapshotTagValueDefaultBranch(c) == c.RunnerConfig.DefaultBranch

defaultTags(c) ==
    << [Key |-> snapshotTagKeyVersion, Value |-> c.Version],
       [Key |-> snapshotTagKeyRepository, Value |-> c.GithubRepository],
       [Key |-> snapshotTagKeyBranch, Value |-> getSnapshotTagValue(c)],
       [Key |-> snapshotTagKeyArch, Value |-> arch],
       [Key |-> snapshotTagKeyPlatform, Value |-> platform] >>
    \o [k \in 1..Len(c.CustomTags) |->
           [Key |-> c.CustomTags[k].Key, Value |-> c.CustomTags[k].Value]]

\* ---------------------------------------------------- snapshots of the cloud
\* A nil *int32 VolumeSize; the API reports a size for every snapshot.
NoSize == 0

NoSnapshot ==
    [SnapshotId |-> 0, StartTime |-> 0, VolumeSize |-> 0, State |-> "none",
     Branch |-> <<>>]

\* The tags of a snapshot.  A snapshot that records the tag specification of
\* its CreateSnapshot request has these tags, one value a key.  The other
\* snapshots of a listing are snapshots this program created for a branch:
\* they have the identity tags of the run that created them and differ in
\* their branch tag.
SnapshotTags(snap) ==
    IF "Tags" \in DOMAIN snap
    THEN [key \in {snap.Tags[k].Key : k \in 1..Len(snap.Tags)} |->
            snap.Tags[CHOOSE k \in 1..Len(snap.Tags) : snap.Tags[k].Key = key].Value]
    ELSE
    [k \in {snapshotTagKeyVersion, snapshotTagKeyRepository, snapshotTagKeyBranch,
            snapshotTagKeyArch, snapshotTagKeyPlatform, "team"} |->
        CASE k = snapshotTagKeyVersion -> "v1"
          [] k = snapshotTagKeyRepository -> "org/repo"
          [] k = snapshotTagKeyBranch -> snap.Branch
          [] k = snapshotTagKeyArch -> arch
          [] k = snapshotTagKeyPlatform -> platform
          [] OTHER -> "ci"]

SnapshotShapes ==
    [StartTime : 1..MaxTime, VolumeSize : 1..MaxSize, State : {"completed", "pending"},
     Branch : {TargetBranch, MainBranch}]

WithId(shape, id) ==
    [SnapshotId |-> id, StartTime |-> shape.StartTime,
     VolumeSize |-> shape.VolumeSize, State |-> shape.State,
     Branch |-> shape.Branch]

\* A filter of DescribeSnapshots: Name is <<"status">> or <<"tag:", key>>.
TagFilter(key, value) == [Name |-> <<"tag:", key>>, Values |-> {value}]

\* A filter list with the tag filters only.
PrimaryFiltersWithoutStatus(c) ==
    [k \in 1..Len(defaultTags(c)) |->
        TagFilter(defaultTags(c)[k].Key, defaultTags(c)[k].Value)]

\* filters of the primary query: status=completed, then one per default tag.
PrimaryFilters(c) ==
    <<[Name |-> <<"status">>, Values |-> {"completed"}]>>
    \o [k \in 1..Len(defaultTags(c)) |->
           TagFilter(defaultTags(c)[k].Key, defaultTags(c)[k].Value)]

\* filters[0] = the default branch's tag filter: the first filter (status) is
\* overwritten, the target branch's filter stays in the list.
DefaultBranchFilters(c, filters) ==
    [filters EXCEPT ![1] =
        TagFilter(snapshotTagKeyBranch, getSnapshotTagValueDefaultBranch(c))]

\* The cloud's filter semantics: a snapshot is listed iff it satisfies every
\* filter of the request.
SatisfiesFilter(snap, f) ==
    IF f.Name = <<"status">>
    THEN snap.State \in f.Values
    ELSE /\ f.Name[2] \in DOMAIN SnapshotTags(snap)
         /\ SnapshotTags(snap)[f.Name[2]] \in f.Values

DescribeSnapshots(snaps, filters) ==
    SelectSeq(snaps, LAMBDA s : \A k \in 1..Len(filters) :
                                   SatisfiesFilter(s, filters[k]))

\* The selection loop: start from the first, move to every later snapshot
\* that is strictly After the current choice.
RECURSIVE LatestFrom(_, _, _)
LatestFrom(list, k, best) ==
    IF k > Len(list) THEN best
    ELSE LatestFrom(list, k + 1,
                    IF list[k].StartTime > best.StartTime THEN list[k] ELSE best)

\* A selection by position instead of by time: the last snapshot listed.
SelectLastListed(list) == list[Len(list)]

\* lines 60-65 and 81-86
SelectLatest(list) == LatestFrom(list, 1, list[1])

\* The rule of line 102 with a strict comparison.
UseSnapshotIfLarger(snap, size) ==
    /\ snap # NoSnapshot
    /\ snap.VolumeSize # NoSize
    /\ snap.VolumeSize > size

\* Line 102: the snapshot is used iff one was located and its recorded size
\* is at least the configured volume size.
UseSnapshot(snap, size) ==
    /\ snap # NoSnapshot
    /\ snap.VolumeSize # NoSize
    /\ snap.VolumeSize >= size


\* ------------------------------------------------------------------- state
VARIABLES
    cfg,                \* the Config of the job's two processes
    account,            \* the account's snapshots, as DescribeSnapshots lists them
    pc,                 \* the statement the running process is at
    filters,            \* RestoreSnapshot: filters
    snapshotsOutput,    \* RestoreSnapshot: snapshotsOutput.Snapshots
    defaultBranchSnapshotsOutput,
    latestSnapshot,     \* RestoreSnapshot: latestSnapshot (NoSnapshot is nil)
    newVolume,          \* RestoreSnapshot: newVolume.VolumeId ("" is nil)
    volumeIsNewAndUnformatted,
    err,                \* RestoreSnapshot: the function-level variable err
    actualDeviceName,
    lsblkOutput,        \* RestoreSnapshot: the lines of lsblkOutput, split in fields
    restoreRet,         \* what RestoreSnapshot returned
    restoreCalls,       \* cloud and host operations RestoreSnapshot issued
    createVolumeInput,  \* the CreateVolumeInput of the run
    volumeInfo,         \* CreateSnapshot: the loaded VolumeInfo
    createRet,          \* what CreateSnapshot returned
    createCalls,        \* cloud and host operations CreateSnapshot issued
    teardown,           \* CreateSnapshot: how its host commands and CreateTags ended
    volState,           \* the volume in the cloud
    snapState,          \* the snapshot CreateSnapshot initiated
    snapTags,           \* the tags of that snapshot in the cloud
    mounted,            \* the volume's filesystem is mounted at the mount point
    hasFs,              \* the volume holds a filesystem
    docker,             \* the engine's service
    files,              \* the files of /runs-on: path -> content
    saved,              \* the latest call of saveVolumeInfo and its outcome
    loaded,             \* the latest call of loadVolumeInfo and its result
    clock,              \* time.Now(), in seconds
    snapshots,          \* the account's snapshots that earlier jobs left
    ttl,                \* the latest TTL tag written on the volume
    volumeTags,         \* the tags of the volume in the cloud
    mainStep,           \* outcome of the action's main step
    postStep            \* outcome of the action's post step

selVars ==
    <<filters, snapshotsOutput, defaultBranchSnapshotsOutput, latestSnapshot>>
volLocals == <<newVolume, volumeIsNewAndUnformatted, actualDeviceName, lsblkOutput>>
hostVars == <<mounted, hasFs, docker, files>>
timeVars == <<clock, snapshots, ttl, volumeTags>>
storeLog == <<saved, loaded>>
stepVars == <<mainStep, postStep>>
createVars == <<volumeInfo, createRet, createCalls, teardown, snapState, snapTags>>

vars ==
    <<cfg, account, pc, filters, snapshotsOutput, defaultBranchSnapshotsOutput,
      latestSnapshot, newVolume,
      volumeIsNewAndUnformatted, err, actualDeviceName, lsblkOutput, restoreRet,
      restoreCalls,
      createVolumeInput, volumeInfo, createRet, createCalls, teardown, volState,
      snapState, snapTags, mounted, hasFs, docker, files, saved, loaded, clock, snapshots, ttl,
      volumeTags,
      mainStep, postStep>>

NoVolume == ""
TheVolume == "vol-1"
NoVolumeInfo ==
    [VolumeID |-> "", DeviceName |-> "", MountPoint |-> <<>>, NewVolume |-> FALSE]
NoFile == [missing |-> TRUE]
NoRet ==
    [kind |-> "none", at |-> "", cause |-> "", VolumeID |-> "", DeviceName |-> "",
     NewVolume |-> FALSE]
NoInput == [SnapshotId |-> 0, Size |-> 0]
\* no command of CreateSnapshot has run; du is "ok" when the disk usage was
\* displayed both before and after the prune
NoTeardown ==
    [du |-> "none", prune |-> "none", stop |-> "none", umount |-> "none",
     df |-> "none", createTags |-> "none"]

\* ---------------------------------------------------------- the TTL tag
\* create.go: the minutes a created volume lives before the reaper may take it
defaultVolumeLifeDurationMinutes == 20
\* CreateSnapshot, line 96: time.Now().Add(10*time.Minute)
teardownGraceMinutes == 10

Digits == <<"0", "1", "2", "3", "4", "5", "6", "7", "8", "9">>

\* fmt.Sprintf("%d", n) of a non-negative n
RECURSIVE FormatInt(_)
FormatInt(n) ==
    IF n < 10 THEN <<Digits[n + 1]>>
    ELSE Append(FormatInt(n \div 10), Digits[(n % 10) + 1])

\* A tag value that holds the time of the write itself.
TTLTagValueOfNow(now, minutes) == FormatInt(now)

\* fmt.Sprintf("%d", time.Now().Add(minutes * time.Minute).Unix())
TTLTagValue(now, minutes) == FormatInt(now + minutes * 60)

NoTTL == [value |-> <<>>, writtenAt |-> 0, by |-> "none"]

TTLWrite(now, minutes, by) ==
    [value |-> TTLTagValue(now, minutes), writtenAt |-> now, by |-> by]

\* Tags of a CreateVolume request that leaves the TTL tag out.
commonVolumeTagsWithoutTTL(c, now) ==
    Append(defaultTags(c),
           [Key |-> nameTagKey, Value |-> c.VolumeName])

\* commonVolumeTags: defaultTags, then Name with the config's VolumeName, then
\* the TTL tag.
commonVolumeTags(c, now) ==
    defaultTags(c)
    \o << [Key |-> nameTagKey, Value |-> c.VolumeName],
          [Key |-> ttlTagKey,
           Value |-> TTLTagValue(now, defaultVolumeLifeDurationMinutes)] >>

\* The cloud rejects a request whose tag specification names a key twice.
TagKeysDistinct(tags) ==
    \A j, k \in 1..Len(tags) : tags[j].Key = tags[k].Key => j = k

\* ec2 CreateTags on a resource: the value of a key the resource has is
\* overwritten, another key is added.
CreateTags(tags, tag) ==
    IF \E k \in 1..Len(tags) : tags[k].Key = tag.Key
    THEN [k \in 1..Len(tags) |-> IF tags[k].Key = tag.Key THEN tag ELSE tags[k]]
    ELSE Append(tags, tag)

\* ------------------------------------------------------- the state store
\* strings.ReplaceAll(s, old, new) for one-character old and new
ReplaceAll(s, old, new) ==
    [k \in 1..Len(s) |-> IF s[k] = old THEN new ELSE s[k]]

RECURSIVE TrimLeft(_, _)
TrimLeft(s, c) ==
    IF s # <<>> /\ Head(s) = c THEN TrimLeft(Tail(s), c) ELSE s

RECURSIVE TrimRight(_, _)
TrimRight(s, c) ==
    IF s # <<>> /\ s[Len(s)] = c THEN TrimRight(SubSeq(s, 1, Len(s) - 1), c) ELSE s

\* strings.Trim(s, cutset) for a one-character cutset
Trim(s, c) == TrimRight(TrimLeft(s, c), c)

\* sanitizedGithubRef of NewAWSSnapshotter: the ref without a leading
\* "refs/", every "/" replaced by "-", cut to its first 40 characters.
sanitizedGithubRef(c) ==
    LET prefix == <<"r", "e", "f", "s", "/">>
        trimmed == IF HasPrefix(c.GithubRef, prefix)
                   THEN SubSeq(c.GithubRef, Len(prefix) + 1, Len(c.GithubRef))
                   ELSE c.GithubRef
        replaced == ReplaceAll(trimmed, "/", "-")
    IN  IF Len(replaced) > 40 THEN SubSeq(replaced, 1, 40) ELSE replaced

\* currentTime.Format("20060102-150405") of the second t since the epoch, on
\* a host whose zone is UTC: year, month, day, "-", hour, minute, second.
FormatTimestamp(t) ==
    LET Pad(n, width) ==
            [k \in 1..width |->
                Digits[((n \div (10 ^ (width - k))) % 10) + 1]]
        days == t \div 86400
        secs == t % 86400
        z == days + 719468
        era == z \div 146097
        doe == z - era * 146097
        yoe == (doe - doe \div 1460 + doe \div 36524 - doe \div 146096) \div 365
        doy == doe - (365 * yoe + yoe \div 4 - yoe \div 100)
        mp == (5 * doy + 2) \div 153
        day == doy - (153 * mp + 2) \div 5 + 1
        month == IF mp < 10 THEN mp + 3 ELSE mp - 9
        year == yoe + era * 400 + (IF month <= 2 THEN 1 ELSE 0)
    IN  Pad(year, 4) \o Pad(month, 2) \o Pad(day, 2) \o <<"-">>
        \o Pad(secs \div 3600, 2) \o Pad((secs % 3600) \div 60, 2)
        \o Pad(secs % 60, 2)

\* NewAWSSnapshotter, lines 126-139: a SnapshotName and a VolumeName that
\* are empty are derived from the ref and from the time of the call.
NewAWSSnapshotter(c, now) ==
    [c EXCEPT
       !.SnapshotName =
          IF @ = <<>>
          THEN <<"runs-on-snapshot-">> \o sanitizedGithubRef(c) \o <<"-">>
               \o FormatTimestamp(now)
          ELSE @,
       !.VolumeName =
          IF @ = <<>>
          THEN <<"runs-on-volume-">> \o sanitizedGithubRef(c) \o <<"-">>
               \o FormatTimestamp(now)
          ELSE @]

\* getVolumeInfoPath: "/runs-on/snapshot-<sanitized>.json".  The sanitized
\* name holds no "/", so filepath.Join leaves it as it is.
getVolumeInfoPath(mountPoint) ==
    <<"/runs-on/", "snapshot-">> \o Trim(ReplaceAll(mountPoint, "/", "-"), "-")
       \o <<".json">>

\* encoding/json writes these characters of a string as escape sequences
\* and reads the sequences back.
EncodeString(s) ==
    [k \in 1..Len(s) |->
        CASE s[k] = "\"" -> "\\\""
          [] s[k] = "\\" -> "\\\\"
          [] s[k] = "&" -> "\\u0026"
          [] s[k] = "<" -> "\\u003c"
          [] s[k] = ">" -> "\\u003e"
          [] OTHER -> s[k]]

DecodeString(j) ==
    [k \in 1..Len(j) |->
        CASE j[k] = "\\\"" -> "\""
          [] j[k] = "\\\\" -> "\\"
          [] j[k] = "\\u0026" -> "&"
          [] j[k] = "\\u003c" -> "<"
          [] j[k] = "\\u003e" -> ">"
          [] OTHER -> j[k]]

\* A VolumeInfo whose NewVolume field is not written (a field json skips).
MarshalVolumeInfoWithoutFlag(v) ==
    [volume_id |-> v.VolumeID, device_name |-> v.DeviceName,
     mount_point |-> EncodeString(v.MountPoint)]

\* json.MarshalIndent of a VolumeInfo: attachment_id and new_volume are
\* omitempty, so a false new_volume (and the never-set attachment_id) is absent.
MarshalVolumeInfo(v) ==
    IF v.NewVolume
    THEN [volume_id |-> v.VolumeID, device_name |-> v.DeviceName,
          mount_point |-> EncodeString(v.MountPoint), new_volume |-> TRUE]
    ELSE [volume_id |-> v.VolumeID, device_name |-> v.DeviceName,
          mount_point |-> EncodeString(v.MountPoint)]

\* json.Unmarshal into a zero VolumeInfo: an absent field keeps its zero value.
UnmarshalVolumeInfo(doc) ==
    [VolumeID |-> doc.volume_id, DeviceName |-> doc.device_name,
     MountPoint |-> DecodeString(doc.mount_point),
     NewVolume |-> IF "new_volume" \in DOMAIN doc THEN doc.new_volume ELSE FALSE]

\* The content of a file that os.WriteFile truncated and then failed to write.
Truncated == [truncated |-> TRUE]

\* os.ReadFile: NoFile stands for the error of a missing file
ReadFile(fs, path) == IF path \in DOMAIN fs THEN fs[path] ELSE NoFile

\* A read-modify-write of the file: the fields of the earlier record that the
\* new data does not hold are kept.
MergeFile(fs, path, data) ==
    [p \in DOMAIN fs \cup {path} |->
        IF p # path THEN fs[p]
        ELSE IF path \in DOMAIN fs /\ fs[path] # Truncated
             THEN [f \in DOMAIN fs[path] \cup DOMAIN data |->
                      IF f \in DOMAIN data THEN data[f] ELSE fs[path][f]]
             ELSE data]

\* os.WriteFile(infoPath, data, 0644): O_WRONLY|O_CREATE|O_TRUNC
WriteFile(fs, path, data) ==
    [p \in DOMAIN fs \cup {path} |-> IF p = path THEN data ELSE fs[p]]

\* saveVolumeInfo fails without a file when the directory or the file cannot
\* be created, leaves a truncated file when the write fails, or writes.
SaveOutcomes == {"written", "notWritten", "truncated"}

saveVolumeInfo(fs, v, outcome) ==
    CASE outcome = "written" ->
            WriteFile(fs, getVolumeInfoPath(v.MountPoint), MarshalVolumeInfo(v))
      [] outcome = "truncated" ->
            WriteFile(fs, getVolumeInfoPath(v.MountPoint), Truncated)
      [] OTHER -> fs

\* A loadVolumeInfo that takes what it cannot parse for an empty record.
loadVolumeInfoLenient(fs, mountPoint) ==
    LET data == ReadFile(fs, getVolumeInfoPath(mountPoint))
    IN  IF data = NoFile \/ data = Truncated
        THEN [err |-> "nil", info |-> NoVolumeInfo]
        ELSE [err |-> "nil", info |-> UnmarshalVolumeInfo(data)]

\* loadVolumeInfo: the error of os.ReadFile or of json.Unmarshal, or the record
loadVolumeInfo(fs, mountPoint) ==
    LET data == ReadFile(fs, getVolumeInfoPath(mountPoint))
    IN  IF data = NoFile THEN [err |-> "read", info |-> NoVolumeInfo]
        ELSE IF data = Truncated THEN [err |-> "unmarshal", info |-> NoVolumeInfo]
        ELSE [err |-> "nil", info |-> UnmarshalVolumeInfo(data)]

\* the file of the job's mount point
stateFile == ReadFile(files, getVolumeInfoPath(cfg.Path))

NoSave ==
    [info |-> NoVolumeInfo, path |-> <<>>, before |-> NoFile, outcome |-> "none"]
NoLoad == [mountPoint |-> <<>>, path |-> <<>>, err |-> "none", info |-> NoVolumeInfo]

SaveCall(fs, v, outcome) ==
    [info |-> v, path |-> getVolumeInfoPath(v.MountPoint),
     before |-> ReadFile(fs, getVolumeInfoPath(v.MountPoint)), outcome |-> outcome]
LoadCall(fs, mountPoint) ==
    [mountPoint |-> mountPoint, path |-> getVolumeInfoPath(mountPoint),
     err |-> loadVolumeInfo(fs, mountPoint).err,
     info |-> loadVolumeInfo(fs, mountPoint).info]


\* The configurations a snapshotter is constructed with: those main builds
\* from the action's inputs.  Nothing assigns the DefaultBranch field of
\* Config, so it is empty in every one of them.
Init ==
    /\ cfg \in {NewConfigFromInputs(i) : i \in ActionInputs}
    /\ account = <<>>
    /\ pc = "main"
    /\ filters = <<>>
    /\ snapshotsOutput = <<>>
    /\ defaultBranchSnapshotsOutput = <<>>
    /\ latestSnapshot = NoSnapshot
    /\ newVolume = NoVolume
    /\ volumeIsNewAndUnformatted = FALSE
    /\ err = "nil"
    /\ actualDeviceName = ""
    /\ lsblkOutput = <<>>
    /\ restoreRet = NoRet
    /\ restoreCalls = <<>>
    /\ createVolumeInput = NoInput
    /\ volumeInfo = NoVolumeInfo
    /\ createRet = [kind |-> "none", at |-> "", cause |-> "", waited |-> FALSE]
    /\ createCalls = <<>>
    /\ teardown = NoTeardown
    /\ volState = "none"
    /\ snapState = "none"
    /\ snapTags = <<>>
    /\ mounted = FALSE
    /\ hasFs = FALSE
    /\ docker = "running"
    /\ files = <<>>
    /\ saved = NoSave
    /\ loaded = NoLoad
    /\ clock = 0
    /\ ttl = NoTTL
    /\ snapshots = <<>>
    /\ volumeTags = <<>>
    /\ mainStep = "none"
    /\ postStep = "none"

\* ------------------------------------------------------ the restore phase
\* The deferred function of RestoreSnapshot (lines 146-158) reads the
\* function-level err when the function returns; the results are unnamed, so
\* a `return nil, fmt.Errorf(...)` does not assign it.  Each statement below
\* either assigns that variable or declares a new err in an inner scope.
ErrShadowed(e, callErr) == e
ErrAssigned(e, callErr) == callErr

\* line 163: if err := volumeAvailableWaiter.Wait(...); err != nil
ErrAfterWaitAvailable(e, callErr) == ErrShadowed(e, callErr)
\* line 170: attachOutput, err := s.ec2Client.AttachVolume(...)
ErrAfterAttachVolume(e, callErr) == ErrAssigned(e, callErr)
\* The attach wait written as line 163 writes the wait for available, its
\* error declared in the scope of the if statement.
WaitInUseErrInIfScope(e, callErr) == e
\* line 182: err = volumeInUseWaiter.Wait(...)
ErrAfterWaitInUse(e, callErr) == ErrAssigned(e, callErr)
\* line 196: descVolOutput, descErr := s.ec2Client.DescribeVolumes(...)
ErrAfterDescribeVolumes(e, callErr) == ErrShadowed(e, callErr)
\* line 223: lsblkOutput, err := s.runCommand(ctx, "lsblk", ...)
ErrAfterLsblk(e, callErr) == ErrAssigned(e, callErr)
\* lines 252, 259, 264, 271, 277: if _, err := s.runCommand(...); err != nil
ErrAfterCommand(e, callErr) == ErrShadowed(e, callErr)

\* A cleanup that detaches the volume before it deletes it.
DeferredCleanupDetaches(e, volume) ==
    IF e # "nil" /\ volume # NoVolume THEN <<"DetachVolume", "DeleteVolume">> ELSE <<>>

\* lines 146-158: the requests the deferred function issues.
DeferredCleanup(e, volume) ==
    IF e # "nil" /\ volume # NoVolume THEN <<"DeleteVolume">> ELSE <<>>

\* DeleteVolume is refused for an attached volume; otherwise it may fail.
DeleteVolumeResults(vs) == IF vs = "in-use" THEN {vs} ELSE {vs, "deleted"}

ClearRestoreLocals ==
    /\ filters' = <<>>
    /\ snapshotsOutput' = <<>>
    /\ defaultBranchSnapshotsOutput' = <<>>
    /\ latestSnapshot' = NoSnapshot
    /\ newVolume' = NoVolume
    /\ volumeIsNewAndUnformatted' = FALSE
    /\ actualDeviceName' = ""
    /\ lsblkOutput' = <<>>
    /\ err' = "nil"
    /\ account' = <<>>

\* A return before the defer statement is reached (lines 53-55, 76-78,
\* 119-121, 138-140).
RestoreReturnsEarly(at, callsNow) ==
    /\ restoreRet' = [NoRet EXCEPT !.kind = "error", !.at = at, !.cause = "failure"]
    /\ restoreCalls' = callsNow
    /\ ClearRestoreLocals
    /\ pc' = "mainReport"

\* A return, or a panic, after the defer statement: the deferred function
\* runs with the function-level err as it is then.  Its DeleteVolume is called
\* with the function's ctx: under a cancelled context the call fails.
RestoreReturns(kind, at, cause, e, callsNow) ==
    /\ restoreRet' =
          IF kind = "ok"
          THEN [kind |-> "ok", at |-> at, cause |-> cause, VolumeID |-> newVolume,
                DeviceName |-> actualDeviceName,
                NewVolume |-> volumeIsNewAndUnformatted]
          ELSE [NoRet EXCEPT !.kind = kind, !.at = at, !.cause = cause]
    /\ restoreCalls' = callsNow \o DeferredCleanup(e, newVolume)
    /\ volState' \in IF DeferredCleanup(e, newVolume) # <<>> /\ cause # "cancelled"
                     THEN DeleteVolumeResults(volState)
                     ELSE {volState}
    /\ ClearRestoreLocals
    /\ pc' = "mainReport"

\* handleMainExecution up to the call of RestoreSnapshot: NewAWSSnapshotter
\* may fail, which is reported with action.Errorf.
handleMainExecution ==
    /\ pc = "main"
    /\ \E ok \in BOOLEAN :
          /\ pc' = IF ok THEN "describeSnapshots" ELSE "mainReport"
          /\ cfg' = IF ok THEN NewAWSSnapshotter(cfg, clock) ELSE cfg
    /\ UNCHANGED <<timeVars, storeLog,
                   account, selVars, volLocals, err, restoreRet, restoreCalls,
                   createVolumeInput, createVars, volState, hostVars, stepVars>>

\* lines 42-55.  The account's snapshots are what they are when the first
\* query reads them; the second query reads the same listing.
RestoreDescribeSnapshotsOn(listings) ==
    /\ pc = "describeSnapshots"
    /\ \E ok \in BOOLEAN, listing \in listings :
          IF ok
          THEN /\ account' = listing
               /\ filters' = PrimaryFilters(cfg)
               /\ snapshotsOutput' = DescribeSnapshots(listing, PrimaryFilters(cfg))
               /\ restoreCalls' = Append(restoreCalls, "DescribeSnapshots")
               /\ pc' = "selectLatest"
               /\ UNCHANGED <<defaultBranchSnapshotsOutput, latestSnapshot,
                              volLocals, err, restoreRet>>
          ELSE RestoreReturnsEarly("describeSnapshots",
                                   Append(restoreCalls, "DescribeSnapshots"))
    /\ UNCHANGED <<cfg, timeVars, storeLog,
                   createVolumeInput, createVars, volState, hostVars, stepVars>>

\* The snapshots the account owns, in the order the API lists them: none,
\* one or two.
RestoreDescribeSnapshots ==
    RestoreDescribeSnapshotsOn(
        {<<>>}
        \cup {<<WithId(a, 1)>> : a \in SnapshotShapes}
        \cup {<<WithId(a, 1), WithId(b, 2)>> :
                 a \in SnapshotShapes, b \in SnapshotShapes})

\* lines 57-66
RestoreSelectLatest ==
    /\ pc = "selectLatest"
    /\ Len(snapshotsOutput) > 0
    /\ latestSnapshot' = SelectLatest(snapshotsOutput)
    /\ pc' = "createVolume"
    /\ UNCHANGED <<cfg, timeVars, storeLog,
                   account, filters, snapshotsOutput, defaultBranchSnapshotsOutput,
                   volLocals, err, restoreRet, restoreCalls, createVolumeInput,
                   createVars, volState, hostVars, stepVars>>

\* lines 58, 67: no snapshot and no default branch in the Config
RestoreNoDefaultBranch ==
    /\ pc = "selectLatest"
    /\ Len(snapshotsOutput) = 0
    /\ cfg.DefaultBranch = <<>>
    /\ pc' = "createVolume"
    /\ UNCHANGED <<cfg, timeVars, storeLog,
                   account, selVars, volLocals, err, restoreRet, restoreCalls,
                   createVolumeInput, createVars, volState, hostVars, stepVars>>

\* lines 67-78
RestoreDescribeDefaultBranch ==
    /\ pc = "selectLatest"
    /\ Len(snapshotsOutput) = 0
    /\ cfg.DefaultBranch # <<>>
    /\ \E ok \in BOOLEAN :
          IF ok
          THEN /\ filters' = DefaultBranchFilters(cfg, filters)
               /\ defaultBranchSnapshotsOutput' =
                     DescribeSnapshots(account, DefaultBranchFilters(cfg, filters))
               /\ restoreCalls' = Append(restoreCalls, "DescribeSnapshots")
               /\ pc' = "selectLatestDefault"
               /\ UNCHANGED <<account, snapshotsOutput, latestSnapshot, volLocals, err,
                              restoreRet>>
          ELSE RestoreReturnsEarly("describeDefaultBranch",
                                   Append(restoreCalls, "DescribeSnapshots"))
    /\ UNCHANGED <<cfg, timeVars, storeLog,
                   createVolumeInput, createVars, volState, hostVars, stepVars>>

\* lines 80-90
RestoreSelectLatestDefault ==
    /\ pc = "selectLatestDefault"
    /\ latestSnapshot' =
          IF Len(defaultBranchSnapshotsOutput) > 0
          THEN SelectLatest(defaultBranchSnapshotsOutput)
          ELSE latestSnapshot
    /\ pc' = "createVolume"
    /\ UNCHANGED <<cfg, timeVars, storeLog,
                   account, filters, snapshotsOutput, defaultBranchSnapshotsOutput,
                   volLocals, err, restoreRet, restoreCalls, createVolumeInput,
                   createVars, volState, hostVars, stepVars>>

\* lines 105-114 and 128-137: the request of either path
CreateVolumeInputOf(snap, c) ==
    IF UseSnapshot(snap, c.VolumeSize)
    THEN [SnapshotId |-> snap.SnapshotId, Size |-> 0]
    ELSE [SnapshotId |-> 0, Size |-> c.VolumeSize]

\* lines 93-144.  The responses of the queries and the account's listing are
\* not read after this statement: the model drops them here.
RestoreCreateVolume ==
    /\ pc = "createVolume"
    /\ createVolumeInput' = CreateVolumeInputOf(latestSnapshot, cfg)
    /\ \E ok \in (IF TagKeysDistinct(commonVolumeTags(cfg, clock))
                 THEN BOOLEAN ELSE {FALSE}) :
          IF ok
          THEN /\ newVolume' = TheVolume
               /\ volumeIsNewAndUnformatted' = ~UseSnapshot(latestSnapshot, cfg.VolumeSize)
               /\ volState' = "creating"
               /\ hasFs' = UseSnapshot(latestSnapshot, cfg.VolumeSize)
               /\ restoreCalls' = Append(restoreCalls, "CreateVolume")
               /\ ttl' = TTLWrite(clock, defaultVolumeLifeDurationMinutes,
                                  "CreateVolume")
               /\ volumeTags' = commonVolumeTags(cfg, clock)
               /\ filters' = <<>>
               /\ snapshotsOutput' = <<>>
               /\ defaultBranchSnapshotsOutput' = <<>>
               /\ account' = <<>>
               /\ pc' = "waitAvailable"
               /\ UNCHANGED <<latestSnapshot, actualDeviceName, lsblkOutput, err,
                              restoreRet>>
          ELSE /\ RestoreReturnsEarly("createVolume",
                                      Append(restoreCalls, "CreateVolume"))
               /\ UNCHANGED <<volState, hasFs, ttl, volumeTags>>
    /\ UNCHANGED <<cfg, clock, snapshots, storeLog, createVars, mounted, docker, files,
                   stepVars>>

\* How a waiter's Wait ends under main's context.Background(): the target
\* state, the deadline, or an error of the API.
WaitOutcomes == {"ok", "timeout", "failure"}

\* Under a context that the caller can cancel, Wait can also end with the
\* context's error.
CancellableWaitOutcomes == WaitOutcomes \cup {"cancelled"}

\* A wait for the created volume whose error is only logged.
AvailableWaitErrorLogged(outcome) == FALSE

\* lines 163-165: if err := volumeAvailableWaiter.Wait(...); err != nil
AvailableWaitAborts(outcome) == outcome # "ok"

\* lines 160-166.  latestSnapshot was last read by the create-volume block.
RestoreWaitAvailableOn(outcomes) ==
    /\ pc = "waitAvailable"
    /\ \E outcome \in outcomes :
          IF ~AvailableWaitAborts(outcome)
          THEN /\ volState' = IF outcome = "ok" THEN "available" ELSE volState
               /\ restoreCalls' = Append(restoreCalls, "WaitVolumeAvailable")
               /\ latestSnapshot' = NoSnapshot
               /\ pc' = "attachVolume"
               /\ UNCHANGED <<account, filters, snapshotsOutput,
                              defaultBranchSnapshotsOutput, volLocals, err, restoreRet>>
          ELSE RestoreReturns("error", "waitAvailable", outcome,
                              ErrAfterWaitAvailable(err, "error"),
                              Append(restoreCalls, "WaitVolumeAvailable"))
    /\ UNCHANGED <<cfg, timeVars, storeLog,
                   createVolumeInput, createVars, hostVars, stepVars>>

RestoreWaitAvailable == RestoreWaitAvailableOn(WaitOutcomes)

\* lines 168-179
RestoreAttachVolume ==
    /\ pc = "attachVolume"
    /\ \E ok \in BOOLEAN :
          IF ok
          THEN /\ err' = ErrAfterAttachVolume(err, "nil")
               /\ actualDeviceName' = suggestedDeviceName
               /\ restoreCalls' = Append(restoreCalls, "AttachVolume")
               /\ pc' = "waitInUse"
               /\ UNCHANGED <<account, selVars, newVolume, volumeIsNewAndUnformatted,
                              lsblkOutput, restoreRet, volState>>
          ELSE RestoreReturns("error", "attachVolume", "failure",
                              ErrAfterAttachVolume(err, "error"),
                              Append(restoreCalls, "AttachVolume"))
    /\ UNCHANGED <<cfg, timeVars, storeLog,
                   createVolumeInput, createVars, hostVars, stepVars>>

\* lines 181-193
RestoreWaitInUseOn(outcomes) ==
    /\ pc = "waitInUse"
    /\ \E outcome \in outcomes :
          IF outcome = "ok"
          THEN /\ err' = ErrAfterWaitInUse(err, "nil")
               /\ volState' = "in-use"
               /\ restoreCalls' = Append(restoreCalls, "WaitVolumeInUse")
               /\ pc' = "describeVolumes"
               /\ UNCHANGED <<account, selVars, volLocals, restoreRet>>
          ELSE RestoreReturns("error", "waitInUse", outcome,
                              ErrAfterWaitInUse(err, "error"),
                              Append(restoreCalls, "WaitVolumeInUse"))
    /\ UNCHANGED <<cfg, timeVars, storeLog,
                   createVolumeInput, createVars, hostVars, stepVars>>

RestoreWaitInUse == RestoreWaitInUseOn(WaitOutcomes)

\* lines 194-203.  Line 197 reads descVolOutput.Volumes[0] before the test of
\* line 198: a failed call (nil output) or an empty Volumes list panics.
RestoreDescribeVolumes ==
    /\ pc = "describeVolumes"
    /\ \E outcome \in {"attached", "apiError", "noVolumes", "noAttachments"} :
          IF outcome = "attached"
          THEN /\ actualDeviceName' = suggestedDeviceName
               /\ restoreCalls' = Append(restoreCalls, "DescribeVolumes")
               /\ pc' = IF IsDockerPath(cfg.Path) THEN "stopDocker" ELSE "defensiveUnmount"
               /\ UNCHANGED <<account, selVars, newVolume, volumeIsNewAndUnformatted,
                              lsblkOutput, err, restoreRet, volState>>
          ELSE RestoreReturns(IF outcome = "noAttachments" THEN "error" ELSE "panic",
                              "describeVolumes", outcome,
                              ErrAfterDescribeVolumes(err, "error"),
                              Append(restoreCalls, "DescribeVolumes"))
    /\ UNCHANGED <<cfg, timeVars, storeLog,
                   createVolumeInput, createVars, hostVars, stepVars>>

\* lines 205-212: a failure is only logged
RestoreStopDocker ==
    /\ pc = "stopDocker"
    /\ \E ok \in BOOLEAN :
          docker' = IF ok THEN "stopped" ELSE docker
    /\ restoreCalls' = Append(restoreCalls, "systemctl stop docker")
    /\ pc' = "defensiveUnmount"
    /\ UNCHANGED <<cfg, timeVars, storeLog,
                   account, selVars, volLocals, err, restoreRet, createVolumeInput,
                   createVars, volState, mounted, hasFs, files, stepVars>>

\* lines 214-217: umount succeeds iff something is mounted there
RestoreDefensiveUnmount ==
    /\ pc = "defensiveUnmount"
    /\ mounted' = FALSE
    /\ restoreCalls' = Append(restoreCalls, "umount")
    /\ pc' = "lsblk"
    /\ UNCHANGED <<cfg, timeVars, storeLog,
                   account, selVars, volLocals, err, restoreRet, createVolumeInput,
                   createVars, volState, hasFs, docker, files, stepVars>>

EbsModel == "Amazon Elastic Block Store"

InstanceStoreModel == "Amazon EC2 NVMe Instance Storage"

\* A line of `lsblk -d -n -o PATH,MODEL` as its words and the spaces between
\* them (the model, spaces included, is one word; "" is no model): the path,
\* pad spaces, the model.
LsblkLine(path, pad, model) ==
    <<path>> \o [i \in 1..pad |-> " "] \o (IF model = "" THEN <<>> ELSE <<model>>)

\* What lsblk lists: nothing, or the root volume and then the attached volume
\* or an instance-store device.
LsblkListings ==
    { <<>>,
      << LsblkLine("/dev/nvme0n1", 1, EbsModel),
         LsblkLine("/dev/nvme1n1", 1, EbsModel) >>,
      << LsblkLine("/dev/nvme0n1", 1, EbsModel),
         LsblkLine("/dev/nvme1n1", 1, InstanceStoreModel) >> }

\* line 229: strings.SplitN(line, " ", 2)
SplitN2(line) ==
    IF \E k \in 1..Len(line) : line[k] = " "
    THEN LET k == CHOOSE j \in 1..Len(line) :
                     line[j] = " " /\ \A i \in 1..(j - 1) : line[i] # " "
         IN  <<SubSeq(line, 1, k - 1), SubSeq(line, k + 1, Len(line))>>
    ELSE <<line>>

\* line 232: len(fields) > 1 && fields[1] == "Amazon Elastic Block Store"
IsBlockStore(fields) == Len(fields) > 1 /\ fields[2] = <<EbsModel>>

\* fields[0] as a string: the path holds no space
FirstField(fields) == IF fields[1] = <<>> THEN "" ELSE fields[1][1]

\* lines 227-236: every line whose model is the block store's overwrites the
\* device name, so the last one stays.
RECURSIVE ResolveDevice(_, _)
ResolveDevice(listing, device) ==
    IF listing = <<>> THEN device
    ELSE ResolveDevice(Tail(listing),
                       IF IsBlockStore(SplitN2(Head(listing)))
                       THEN FirstField(SplitN2(Head(listing))) ELSE device)

\* lines 219-237: a failure is only logged, but err is assigned; the output
\* of the command is read whether or not it failed
RestoreLsblkOn(listings) ==
    /\ pc = "lsblk"
    /\ \E ok \in BOOLEAN, listing \in listings :
          /\ err' = ErrAfterLsblk(err, IF ok THEN "nil" ELSE "error")
          /\ lsblkOutput' = listing
          /\ actualDeviceName' = ResolveDevice(listing, actualDeviceName)
    /\ restoreCalls' = Append(restoreCalls, "lsblk")
    /\ pc' = "saveVolumeInfo"
    /\ UNCHANGED <<cfg, timeVars, storeLog,
                   account, selVars, newVolume, volumeIsNewAndUnformatted,
                   restoreRet, createVolumeInput, createVars, volState, hostVars,
                   stepVars>>

RestoreLsblk == RestoreLsblkOn(LsblkListings)

\* The record RestoreSnapshot builds at lines 240-245.
RestoreVolumeInfo ==
    [VolumeID |-> newVolume, DeviceName |-> actualDeviceName,
     MountPoint |-> cfg.Path, NewVolume |-> volumeIsNewAndUnformatted]

\* A failure of saveVolumeInfo that makes RestoreSnapshot return the error.
SaveFailureReturnsError(outcome) == outcome # "written"

\* lines 246-248: the error of saveVolumeInfo is logged as a warning
SaveFailureIsFatal(outcome) == FALSE

\* A format step that runs for every volume.
FormatsEveryVolume(isNewAndUnformatted) == TRUE

\* line 250: if volumeIsNewAndUnformatted
FormatsVolume(isNewAndUnformatted) == isNewAndUnformatted

\* lines 239-250 and saveVolumeInfo
RestoreSaveVolumeInfo ==
    /\ pc = "saveVolumeInfo"
    /\ \E outcome \in SaveOutcomes :
          /\ files' = saveVolumeInfo(files, RestoreVolumeInfo, outcome)
          /\ saved' = SaveCall(files, RestoreVolumeInfo, outcome)
          /\ IF SaveFailureIsFatal(outcome)
             THEN /\ RestoreReturns("error", "saveVolumeInfo", "failure",
                                    ErrAfterCommand(err, "error"), restoreCalls)
             ELSE /\ pc' = IF FormatsVolume(volumeIsNewAndUnformatted)
                           THEN "format" ELSE "mkdir"
                  /\ UNCHANGED <<account, selVars, volLocals, err, restoreRet,
                                 restoreCalls, volState>>
    /\ UNCHANGED <<cfg, timeVars, loaded, createVolumeInput, createVars, mounted,
                   hasFs, docker, stepVars>>

\* lines 250-256
RestoreFormat ==
    /\ pc = "format"
    /\ \E ok \in BOOLEAN :
          IF ok
          THEN /\ hasFs' = TRUE
               /\ restoreCalls' = Append(restoreCalls, "mkfs.ext4")
               /\ pc' = "mkdir"
               /\ UNCHANGED <<account, selVars, volLocals, err, restoreRet, volState>>
          ELSE /\ RestoreReturns("error", "format", "failure",
                                 ErrAfterCommand(err, "error"),
                                 Append(restoreCalls, "mkfs.ext4"))
               /\ UNCHANGED hasFs
    /\ UNCHANGED <<cfg, timeVars, storeLog,
                   createVolumeInput, createVars, mounted, docker, files,
                   stepVars>>

\* lines 258-261
RestoreMkdir ==
    /\ pc = "mkdir"
    /\ \E ok \in BOOLEAN :
          IF ok
          THEN /\ restoreCalls' = Append(restoreCalls, "mkdir")
               /\ pc' = "mount"
               /\ UNCHANGED <<account, selVars, volLocals, err, restoreRet, volState>>
          ELSE RestoreReturns("error", "mkdir", "failure",
                                 ErrAfterCommand(err, "error"),
                              Append(restoreCalls, "mkdir"))
    /\ UNCHANGED <<cfg, timeVars, storeLog,
                   createVolumeInput, createVars, hostVars, stepVars>>

\* lines 263-267: mount can succeed only on a device that holds a filesystem
RestoreMount ==
    /\ pc = "mount"
    /\ \E ok \in (IF hasFs THEN BOOLEAN ELSE {FALSE}) :
          IF ok
          THEN /\ mounted' = TRUE
               /\ restoreCalls' = Append(restoreCalls, "mount")
               /\ pc' = IF IsDockerPath(cfg.Path) THEN "startDocker" ELSE "restoreReturn"
               /\ UNCHANGED <<account, selVars, volLocals, err, restoreRet, volState>>
          ELSE /\ RestoreReturns("error", "mount", "failure",
                                 ErrAfterCommand(err, "error"),
                                 Append(restoreCalls, "mount"))
               /\ UNCHANGED mounted
    /\ UNCHANGED <<cfg, timeVars, storeLog,
                   createVolumeInput, createVars, hasFs, docker, files,
                   stepVars>>

\* lines 269-274
RestoreStartDocker ==
    /\ pc = "startDocker"
    /\ \E ok \in BOOLEAN :
          IF ok
          THEN /\ docker' = "running"
               /\ restoreCalls' = Append(restoreCalls, "systemctl start docker")
               /\ pc' = "dockerInfo"
               /\ UNCHANGED <<account, selVars, volLocals, err, restoreRet, volState>>
          ELSE /\ RestoreReturns("error", "startDocker", "failure",
                                 ErrAfterCommand(err, "error"),
                                 Append(restoreCalls, "systemctl start docker"))
               /\ UNCHANGED docker
    /\ UNCHANGED <<cfg, timeVars, storeLog,
                   createVolumeInput, createVars, mounted, hasFs, files,
                   stepVars>>

\* A failed probe that leaves the mount point as it is.
MountedAfterProbeFailureNoUnmount(wasMounted, unmounted) == wasMounted

\* lines 279-282: the mount point after the unmount of a failed probe
MountedAfterProbeFailure(wasMounted, unmounted) ==
    IF unmounted THEN FALSE ELSE wasMounted

\* lines 276-286: on a failed probe the mount point is unmounted (a failure
\* of that is only logged) and the probe's error is returned
RestoreDockerInfo ==
    /\ pc = "dockerInfo"
    /\ \E ok \in BOOLEAN, unmounted \in BOOLEAN :
          IF ok
          THEN /\ restoreCalls' = Append(restoreCalls, "docker system info")
               /\ pc' = "restoreReturn"
               /\ UNCHANGED <<account, selVars, volLocals, err, restoreRet, volState,
                              mounted>>
          ELSE /\ mounted' = MountedAfterProbeFailure(mounted, unmounted)
               /\ RestoreReturns("error", "dockerInfo",
                                 IF unmounted THEN "probe failed, unmounted"
                                 ELSE "probe failed, unmount failed",
                                 ErrAfterCommand(err, "error"),
                                 restoreCalls \o <<"docker system info", "umount">>)
    /\ UNCHANGED <<cfg, timeVars, storeLog,
                   createVolumeInput, createVars, hasFs, docker, files,
                   stepVars>>

\* line 288
RestoreReturnOk ==
    /\ pc = "restoreReturn"
    /\ RestoreReturns("ok", "", "", err, restoreCalls)
    /\ UNCHANGED <<cfg, timeVars, storeLog,
                   createVolumeInput, createVars, hostVars, stepVars>>

\* main.go: handleMainExecution reports an error of NewAWSSnapshotter or of
\* RestoreSnapshot with action.Errorf, which writes an error annotation and
\* returns; main then returns, so the process exits 0.  A panic ends the
\* process with exit status 2.
BinaryExitCode(kind) == IF kind = "panic" THEN 2 ELSE 0

\* index.js main: execFileSync throws on a non-zero exit status of the binary
\* (the wrapper then dies with a non-zero status: the step fails); otherwise
\* process.exit(0).
WrapperStep(exitCode) == IF exitCode # 0 THEN "failure" ELSE "success"

MainStepEnds ==
    /\ pc = "mainReport"
    /\ mainStep' = WrapperStep(BinaryExitCode(restoreRet.kind))
    /\ pc' = "job"
    /\ UNCHANGED <<cfg, timeVars, storeLog,
                   account, selVars, volLocals, err, restoreRet, restoreCalls,
                   createVolumeInput, createVars, volState, hostVars, postStep>>

\* action.yml: post-if: "success()".  The post step runs iff every earlier
\* step of the job, the main step included, succeeded.
JobSteps ==
    /\ pc = "job"
    /\ \E ok \in BOOLEAN :
          pc' = IF mainStep = "success" /\ ok THEN "post" ELSE "end"
    /\ UNCHANGED <<cfg, timeVars, storeLog,
                   account, selVars, volLocals, err, restoreRet, restoreCalls,
                   createVolumeInput, createVars, volState, hostVars, stepVars>>

RestoreNext ==
    \/ handleMainExecution
    \/ RestoreDescribeSnapshots
    \/ RestoreSelectLatest
    \/ RestoreNoDefaultBranch
    \/ RestoreCreateVolume
    \/ RestoreWaitAvailable
    \/ RestoreAttachVolume
    \/ RestoreWaitInUse
    \/ RestoreDescribeVolumes
    \/ RestoreStopDocker
    \/ RestoreDefensiveUnmount
    \/ RestoreLsblk
    \/ RestoreSaveVolumeInfo
    \/ RestoreFormat
    \/ RestoreMkdir
    \/ RestoreMount
    \/ RestoreStartDocker
    \/ RestoreDockerInfo
    \/ RestoreReturnOk
    \/ MainStepEnds
    \/ JobSteps

\* ------------------------------------------------------- the create phase
NoCreateRet == [kind |-> "none", at |-> "", cause |-> "", waited |-> FALSE]

CreateReturns(kind, at, cause, waited, callsNow) ==
    /\ createRet' = [kind |-> kind, at |-> at, cause |-> cause, waited |-> waited]
    /\ createCalls' = callsNow
    /\ volumeInfo' = NoVolumeInfo
    /\ pc' = "postReport"

restoreVars ==
    <<account, selVars, volLocals, err, restoreRet, restoreCalls, createVolumeInput>>

\* handlePostExecution up to the call of CreateSnapshot: the phase is skipped
\* when cfg.Save is false; an error of NewAWSSnapshotter is reported with
\* action.Errorf.
handlePostExecution ==
    /\ pc = "post"
    /\ \E save \in BOOLEAN, ok \in BOOLEAN :
          /\ pc' = IF save /\ ok THEN "loadVolumeInfo" ELSE "postReport"
          /\ cfg' = IF save /\ ok
                    THEN NewAWSSnapshotter([cfg EXCEPT !.SnapshotName = <<>>,
                                                      !.VolumeName = <<>>], clock)
                    ELSE [cfg EXCEPT !.SnapshotName = <<>>, !.VolumeName = <<>>]
    /\ UNCHANGED <<timeVars, storeLog,
                   restoreVars, createVars, volState, hostVars, stepVars>>

\* lines 53-57 and loadVolumeInfo
CreateLoadVolumeInfo ==
    /\ pc = "loadVolumeInfo"
    /\ loaded' = LoadCall(files, cfg.Path)
    /\ IF loadVolumeInfo(files, cfg.Path).err # "nil"
       THEN /\ CreateReturns("error", "loadVolumeInfo", "failure", FALSE, createCalls)
       ELSE /\ volumeInfo' = loadVolumeInfo(files, cfg.Path).info
            /\ pc' = IF IsDockerPath(cfg.Path) THEN "pruneDocker" ELSE "unmount"
            /\ UNCHANGED <<createRet, createCalls>>
    /\ UNCHANGED <<cfg, timeVars, saved, restoreVars, teardown, snapState, snapTags, volState,
                   hostVars, stepVars>>

\* runCommand: the error it returns is nil or not
Result(ok) == IF ok THEN "ok" ELSE "failed"

\* A failed prune that makes CreateSnapshot return the error.
PruneFailureReturnsError(pruned) == ~pruned

\* lines 70-72: the error of the prune is logged as a warning
PruneFailureIsFatal(pruned) == FALSE

\* lines 59-79 and executeWithBeforeAfter: disk usage, prune, disk usage and
\* the stop of the service; a failure of any of them is only logged
CreatePruneAndStopDocker ==
    /\ pc = "pruneDocker"
    /\ \E duBefore \in BOOLEAN, pruned \in BOOLEAN, duAfter \in BOOLEAN :
          IF PruneFailureIsFatal(pruned)
          THEN /\ teardown' = [teardown EXCEPT !.du = Result(duBefore /\ duAfter),
                                               !.prune = Result(pruned)]
               /\ CreateReturns("error", "pruneDocker", "failure", FALSE,
                                createCalls \o <<"docker buildx du",
                                                 "docker buildx prune",
                                                 "docker buildx du">>)
               /\ UNCHANGED docker
          ELSE \E stopped \in BOOLEAN :
                  /\ docker' = IF stopped THEN "stopped" ELSE docker
                  /\ teardown' = [teardown EXCEPT !.du = Result(duBefore /\ duAfter),
                                                  !.prune = Result(pruned),
                                                  !.stop = Result(stopped)]
                  /\ createCalls' =
                        createCalls \o <<"docker buildx du", "docker buildx prune",
                                         "docker buildx du", "systemctl stop docker">>
                  /\ pc' = "unmount"
                  /\ UNCHANGED <<volumeInfo, createRet>>
    /\ UNCHANGED <<cfg, timeVars, storeLog,
                   restoreVars, snapState, snapTags, volState, mounted,
                   hasFs, files, stepVars>>

\* A check that gives up whenever df cannot show the mount point gone.
StillMountedUnlessShownGone(dfOk, dfReportsMountPoint) ==
    ~dfOk \/ dfReportsMountPoint

\* line 84: checkErr == nil && strings.Contains(string(dfOutput), mountPoint)
StillMounted(dfOk, dfReportsMountPoint) == dfOk /\ dfReportsMountPoint

\* lines 81-90.  umount can succeed only when the filesystem is mounted; df
\* reports the mount point iff something is mounted there.
CreateUnmount ==
    /\ pc = "unmount"
    /\ \E ok \in (IF mounted THEN BOOLEAN ELSE {FALSE}), dfOk \in BOOLEAN :
          IF ok
          THEN /\ mounted' = FALSE
               /\ teardown' = [teardown EXCEPT !.umount = "ok"]
               /\ createCalls' = Append(createCalls, "umount")
               /\ pc' = "createTags"
               /\ UNCHANGED <<volumeInfo, createRet>>
          ELSE /\ teardown' = [teardown EXCEPT !.umount = "failed",
                                               !.df = IF ~dfOk THEN "failed"
                                                      ELSE IF mounted
                                                      THEN "lists mount point"
                                                      ELSE "other filesystem"]
               /\ IF StillMounted(dfOk, mounted)
                  THEN /\ CreateReturns("error", "unmount", "failure", FALSE,
                                        createCalls \o <<"umount", "df">>)
                       /\ UNCHANGED mounted
                  ELSE /\ createCalls' = createCalls \o <<"umount", "df">>
                       /\ pc' = "createTags"
                       /\ UNCHANGED <<mounted, volumeInfo, createRet>>
    /\ UNCHANGED <<cfg, timeVars, storeLog,
                   restoreVars, snapState, snapTags, volState, hasFs, docker, files,
                   stepVars>>

\* lines 92-101: a failure is only logged
CreateTagsTTL ==
    /\ pc = "createTags"
    /\ createCalls' = Append(createCalls, "CreateTags")
    /\ \E ok \in BOOLEAN :
          /\ ttl' = IF ok THEN TTLWrite(clock, teardownGraceMinutes, "CreateTags")
                    ELSE ttl
          /\ volumeTags' =
                IF ok
                THEN CreateTags(volumeTags,
                                [Key |-> ttlTagKey,
                                 Value |-> TTLTagValue(clock, teardownGraceMinutes)])
                ELSE volumeTags
          /\ teardown' = [teardown EXCEPT !.createTags = Result(ok)]
    /\ pc' = "detachVolume"
    /\ UNCHANGED <<cfg, clock, snapshots, storeLog,
                   restoreVars, volumeInfo, createRet, snapState, snapTags, volState,
                   hostVars, stepVars>>

\* lines 103-110.  The request can succeed only for an attached volume.  The
\* outcomes of the commands before it are not read again: the model drops
\* them here.
CreateDetachVolume ==
    /\ pc = "detachVolume"
    /\ teardown' = NoTeardown
    /\ \E ok \in (IF volState = "in-use" THEN BOOLEAN ELSE {FALSE}) :
          IF ok
          THEN /\ volState' = "detaching"
               /\ createCalls' = Append(createCalls, "DetachVolume")
               /\ pc' = "waitDetached"
               /\ UNCHANGED <<volumeInfo, createRet>>
          ELSE /\ CreateReturns("error", "detachVolume", "failure", FALSE,
                                Append(createCalls, "DetachVolume"))
               /\ UNCHANGED volState
    /\ UNCHANGED <<cfg, timeVars, storeLog,
                   restoreVars, snapState, snapTags, hostVars, stepVars>>

\* A wait whose error is only logged.
DetachWaitErrorLogged(outcome) == FALSE

\* lines 114-116: if err := volumeDetachedWaiter.Wait(...); err != nil
DetachWaitAborts(outcome) == outcome # "ok"

\* lines 112-117
CreateWaitDetachedOn(outcomes) ==
    /\ pc = "waitDetached"
    /\ \E outcome \in outcomes :
          IF ~DetachWaitAborts(outcome)
          THEN /\ volState' = IF outcome = "ok" THEN "available" ELSE volState
               /\ createCalls' = Append(createCalls, "WaitVolumeAvailable")
               /\ pc' = "createSnapshot"
               /\ UNCHANGED <<volumeInfo, createRet>>
          ELSE /\ CreateReturns("error", "waitDetached", outcome, FALSE,
                                Append(createCalls, "WaitVolumeAvailable"))
               /\ UNCHANGED volState
    /\ UNCHANGED <<cfg, timeVars, storeLog,
                   restoreVars, teardown, snapState, snapTags, hostVars, stepVars>>

CreateWaitDetached == CreateWaitDetachedOn(WaitOutcomes)

\* The wait decided by the option alone.
WaitsOnlyIfConfigured(info, c) == c.WaitForCompletion

\* lines 141-148: the completion of the snapshot is waited for when the
\* volume was created blank, or when the configuration asks for it.
WaitsForCompletion(info, c) == info.NewVolume \/ c.WaitForCompletion

\* A tag specification without the custom tags of the configuration.
snapshotTagsWithoutCustom(c) ==
    << [Key |-> snapshotTagKeyVersion, Value |-> c.Version],
       [Key |-> snapshotTagKeyRepository, Value |-> c.GithubRepository],
       [Key |-> snapshotTagKeyBranch, Value |-> getSnapshotTagValue(c)],
       [Key |-> snapshotTagKeyArch, Value |-> arch],
       [Key |-> snapshotTagKeyPlatform, Value |-> platform],
       [Key |-> nameTagKey, Value |-> c.SnapshotName] >>

\* lines 122-124: snapshotTags is defaultTags, then Name with the config's
\* SnapshotName.
snapshotTags(c) ==
    Append(defaultTags(c),
           [Key |-> nameTagKey, Value |-> c.SnapshotName])

\* lines 119-148
CreateSnapshotRequest ==
    /\ pc = "createSnapshot"
    /\ \E ok \in (IF TagKeysDistinct(snapshotTags(cfg)) THEN BOOLEAN ELSE {FALSE}) :
          IF ok
          THEN /\ snapState' = "pending"
               /\ snapTags' = snapshotTags(cfg)
               /\ IF WaitsForCompletion(volumeInfo, cfg)
                  THEN /\ createCalls' = Append(createCalls, "CreateSnapshot")
                       /\ pc' = "waitCompleted"
                       /\ UNCHANGED <<volumeInfo, createRet>>
                  ELSE CreateReturns("ok", "", "", FALSE,
                                     Append(createCalls, "CreateSnapshot"))
          ELSE /\ CreateReturns("error", "createSnapshot", "failure", FALSE,
                                Append(createCalls, "CreateSnapshot"))
               /\ UNCHANGED <<snapState, snapTags>>
    /\ UNCHANGED <<cfg, timeVars, storeLog,
                   restoreVars, teardown, volState, hostVars, stepVars>>

\* A completion wait whose error is only logged.
SnapshotWaitErrorLogged(outcome) == FALSE

\* lines 152-154: if err := snapshotCompletedWaiter.Wait(...); err != nil
SnapshotWaitAborts(outcome) == outcome # "ok"

\* lines 150-155
CreateWaitCompletedOn(outcomes) ==
    /\ pc = "waitCompleted"
    /\ \E outcome \in outcomes :
          IF ~SnapshotWaitAborts(outcome)
          THEN /\ snapState' = IF outcome = "ok" THEN "completed" ELSE snapState
               /\ UNCHANGED snapTags
               /\ createCalls' = Append(createCalls, "WaitSnapshotCompleted")
               /\ pc' = "deleteVolume"
               /\ UNCHANGED <<volumeInfo, createRet>>
          ELSE /\ CreateReturns("error", "waitCompleted", outcome, TRUE,
                                Append(createCalls, "WaitSnapshotCompleted"))
               /\ UNCHANGED <<snapState, snapTags>>
    /\ UNCHANGED <<cfg, timeVars, storeLog,
                   restoreVars, teardown, volState, hostVars, stepVars>>

CreateWaitCompleted == CreateWaitCompletedOn(WaitOutcomes)

\* lines 157-166: the snapshotted volume is deleted; a failure of the
\* deletion is only logged
CreateDeleteVolume ==
    /\ pc = "deleteVolume"
    /\ volState' \in DeleteVolumeResults(volState)
    /\ CreateReturns("ok", "", "", TRUE, Append(createCalls, "DeleteVolume"))
    /\ UNCHANGED <<cfg, timeVars, storeLog,
                   restoreVars, teardown, snapState, snapTags, hostVars, stepVars>>

\* main.go: handlePostExecution reports an error of CreateSnapshot with
\* action.Errorf and returns; the post step's wrapper is index.js's.
PostStepEnds ==
    /\ pc = "postReport"
    /\ postStep' = WrapperStep(BinaryExitCode(createRet.kind))
    /\ pc' = "end"
    /\ UNCHANGED <<cfg, timeVars, storeLog,
                   restoreVars, createVars, volState, hostVars, mainStep>>

CreateNext ==
    \/ handlePostExecution
    \/ CreateLoadVolumeInfo
    \/ CreatePruneAndStopDocker
    \/ CreateUnmount
    \/ CreateTagsTTL
    \/ CreateDetachVolume
    \/ CreateWaitDetached
    \/ CreateSnapshotRequest
    \/ CreateWaitCompleted
    \/ CreateDeleteVolume
    \/ PostStepEnds

Next == RestoreNext \/ CreateNext

Spec == Init /\ [][Next]_vars

\* ------------------------------------------- a caller that can cancel
\* RestoreSnapshot and CreateSnapshot called with a context that the caller
\* may cancel while a wait is polling; everything else as under main.
RestoreWaitAvailableCancellable == RestoreWaitAvailableOn(CancellableWaitOutcomes)
RestoreWaitInUseCancellable == RestoreWaitInUseOn(CancellableWaitOutcomes)
CreateWaitDetachedCancellable == CreateWaitDetachedOn(CancellableWaitOutcomes)
CreateWaitCompletedCancellable == CreateWaitCompletedOn(CancellableWaitOutcomes)

NextCancel ==
    \/ handleMainExecution
    \/ RestoreDescribeSnapshots
    \/ RestoreSelectLatest
    \/ RestoreNoDefaultBranch
    \/ RestoreCreateVolume
    \/ RestoreWaitAvailableCancellable
    \/ RestoreAttachVolume
    \/ RestoreWaitInUseCancellable
    \/ RestoreDescribeVolumes
    \/ RestoreStopDocker
    \/ RestoreDefensiveUnmount
    \/ RestoreLsblk
    \/ RestoreSaveVolumeInfo
    \/ RestoreFormat
    \/ RestoreMkdir
    \/ RestoreMount
    \/ RestoreStartDocker
    \/ RestoreDockerInfo
    \/ RestoreReturnOk
    \/ MainStepEnds
    \/ JobSteps
    \/ handlePostExecution
    \/ CreateLoadVolumeInfo
    \/ CreatePruneAndStopDocker
    \/ CreateUnmount
    \/ CreateTagsTTL
    \/ CreateDetachVolume
    \/ CreateWaitDetachedCancellable
    \/ CreateSnapshotRequest
    \/ CreateWaitCompletedCancellable
    \/ CreateDeleteVolume
    \/ PostStepEnds

SpecCancel == Init /\ [][NextCancel]_vars

\* ------------------------------------------- the selection, on longer lists
\* RestoreSnapshot right after the primary query, on an account of up to
\* MaxSnaps snapshots of the target branch, all completed (the query lists
\* them) or all pending (it lists none).  The Config is one whose
\* DefaultBranch field a caller other than main has filled with the target
\* branch, so that lines 67-91 run: the repeated query has lost the status
\* filter and lists the pending snapshots.
SelectionConfig ==
    NewAWSSnapshotter(
        [NewConfigFromInputs([path |-> <<"/", "m", "n", "t">>,
                              wait_for_completion |-> "false",
                              volume_size |-> 1,
                              GITHUB_REF_NAME |-> TargetBranch,
                              runnerDefaultBranch |-> TargetBranch])
            EXCEPT !.DefaultBranch = TargetBranch],
        0)

InitSelect ==
    /\ cfg = SelectionConfig
    /\ \E state \in {"completed", "pending"} :
          \E r \in UNION { { [k \in 1..n |->
                              [SnapshotId |-> k, StartTime |-> t[k],
                               VolumeSize |-> 1, State |-> state,
                               Branch |-> TargetBranch]] :
                           t \in [1..n -> 1..MaxSnaps] } : n \in 1..MaxSnaps } :
             /\ account = r
             /\ snapshotsOutput = DescribeSnapshots(r, PrimaryFilters(cfg))
    /\ pc = "selectLatest"
    /\ filters = PrimaryFilters(cfg)
    /\ defaultBranchSnapshotsOutput = <<>>
    /\ restoreCalls = <<"DescribeSnapshots">>
    /\ latestSnapshot = NoSnapshot
    /\ newVolume = NoVolume
    /\ volumeIsNewAndUnformatted = FALSE
    /\ err = "nil"
    /\ actualDeviceName = ""
    /\ lsblkOutput = <<>>
    /\ restoreRet = NoRet
    /\ createVolumeInput = NoInput
    /\ volumeInfo = NoVolumeInfo
    /\ createRet = NoCreateRet
    /\ createCalls = <<>>
    /\ teardown = NoTeardown
    /\ volState = "none"
    /\ snapState = "none"
    /\ snapTags = <<>>
    /\ mounted = FALSE
    /\ hasFs = FALSE
    /\ docker = "running"
    /\ files = <<>>
    /\ saved = NoSave
    /\ loaded = NoLoad
    /\ clock = 0
    /\ ttl = NoTTL
    /\ snapshots = <<>>
    /\ volumeTags = <<>>
    /\ mainStep = "none"
    /\ postStep = "none"

NextSelect ==
    \/ RestoreSelectLatest
    \/ RestoreDescribeDefaultBranch
    \/ RestoreSelectLatestDefault

SpecSelect == InitSelect /\ [][NextSelect]_vars

\* ------------------------------------- the state store, used repeatedly
\* A job that uses the action several times: each restore phase calls
\* saveVolumeInfo with its record, each create phase calls loadVolumeInfo with
\* its mount point, on the same /runs-on directory.
StoreMountPoints ==
    { <<"/", "a", "/", "b">>, <<"/", "a", "-", "b">>, <<"/", "c", "&", "d">> }

nonStoreVars ==
    <<cfg, account, filters, snapshotsOutput, defaultBranchSnapshotsOutput,
      latestSnapshot, newVolume, volumeIsNewAndUnformatted, err, actualDeviceName,
      lsblkOutput,
      restoreRet, restoreCalls, createVolumeInput, volumeInfo, createRet,
      createCalls, teardown, volState, snapState, snapTags, mounted, hasFs, docker, clock,
      snapshots, ttl, volumeTags,
      mainStep, postStep>>

\* a job in which RestoreSnapshot and CreateSnapshot have not run
Idle ==
    /\ cfg = SelectionConfig
    /\ account = <<>>
    /\ filters = <<>>
    /\ snapshotsOutput = <<>>
    /\ defaultBranchSnapshotsOutput = <<>>
    /\ latestSnapshot = NoSnapshot
    /\ newVolume = NoVolume
    /\ volumeIsNewAndUnformatted = FALSE
    /\ err = "nil"
    /\ actualDeviceName = ""
    /\ lsblkOutput = <<>>
    /\ restoreRet = NoRet
    /\ restoreCalls = <<>>
    /\ createVolumeInput = NoInput
    /\ volumeInfo = NoVolumeInfo
    /\ createRet = NoCreateRet
    /\ createCalls = <<>>
    /\ teardown = NoTeardown
    /\ volState = "none"
    /\ snapState = "none"
    /\ snapTags = <<>>
    /\ mounted = FALSE
    /\ hasFs = FALSE
    /\ docker = "running"
    /\ files = <<>>
    /\ saved = NoSave
    /\ loaded = NoLoad
    /\ ttl = NoTTL
    /\ snapshots = <<>>
    /\ volumeTags = <<>>
    /\ mainStep = "none"
    /\ postStep = "none"

InitStore == Idle /\ pc = "store" /\ clock = 0

\* saveVolumeInfo(volumeInfo)
StoreSaveOf(infos, outcomes) ==
    /\ pc = "store"
    /\ \E v \in infos, outcome \in outcomes :
          /\ files' = saveVolumeInfo(files, v, outcome)
          /\ saved' = SaveCall(files, v, outcome)
    /\ loaded' = NoLoad
    /\ UNCHANGED <<pc, nonStoreVars>>

\* loadVolumeInfo(mountPoint)
StoreLoadOf(mountPoints) ==
    /\ pc = "store"
    /\ \E m \in mountPoints : loaded' = LoadCall(files, m)
    /\ UNCHANGED <<pc, nonStoreVars, files, saved>>

StoreSave ==
    StoreSaveOf([VolumeID : {"vol-1", "vol-2"}, DeviceName : {"/dev/nvme1n1"},
                 MountPoint : StoreMountPoints, NewVolume : BOOLEAN],
                SaveOutcomes)
StoreLoad == StoreLoadOf(StoreMountPoints)

NextStore == StoreSave \/ StoreLoad

SpecStore == InitStore /\ [][NextStore]_vars

\* ------------------------------------------- the path of the state file
\* Longest mount point of the path specification.
MaxPathLen == 4

\* the absolute paths of at most MaxPathLen characters
AbsolutePaths ==
    UNION { { <<"/">> \o rest : rest \in [1..n -> {"/", "-", "a", "b"}] } :
            n \in 0..(MaxPathLen - 1) }

\* saveVolumeInfo on a /runs-on that cannot be created: the path is derived,
\* MkdirAll fails and nothing is written
PathSave ==
    StoreSaveOf([VolumeID : {"vol-1"}, DeviceName : {"/dev/nvme1n1"},
                 MountPoint : AbsolutePaths, NewVolume : {TRUE}],
                {"notWritten"})
PathLoad == StoreLoadOf(AbsolutePaths)

NextPath == PathSave \/ PathLoad

SpecPath == InitStore /\ [][NextPath]_vars

\* ------------------------------------------------ the TTL tag over time
\* Latest second of the clock in the TTL specification.
MaxNow == 12

InitTTL == Idle /\ pc = "ttl" /\ clock \in 0..MaxNow

\* the TTL tag among commonVolumeTags of the CreateVolume request
TTLAtCreate ==
    /\ pc = "ttl"
    /\ ttl' = TTLWrite(clock, defaultVolumeLifeDurationMinutes, "CreateVolume")
    /\ volumeTags' = commonVolumeTags(cfg, clock)
    /\ UNCHANGED <<cfg, account, pc, selVars, volLocals, err, restoreRet,
                   restoreCalls, createVolumeInput, createVars, volState, hostVars,
                   storeLog, clock, snapshots, stepVars>>

\* the TTL tag of the CreateTags request before the volume is detached
TTLAtRearm ==
    /\ pc = "ttl"
    /\ ttl' = TTLWrite(clock, teardownGraceMinutes, "CreateTags")
    /\ volumeTags' =
          CreateTags(volumeTags,
                     [Key |-> ttlTagKey,
                      Value |-> TTLTagValue(clock, teardownGraceMinutes)])
    /\ UNCHANGED <<cfg, account, pc, selVars, volLocals, err, restoreRet,
                   restoreCalls, createVolumeInput, createVars, volState, hostVars,
                   storeLog, clock, snapshots, stepVars>>

\* time.Now() advances
Tick ==
    /\ pc = "ttl"
    /\ clock < MaxNow
    /\ clock' = clock + 1
    /\ UNCHANGED <<cfg, account, pc, selVars, volLocals, err, restoreRet,
                   restoreCalls, createVolumeInput, createVars, volState, hostVars,
                   storeLog, ttl, snapshots, volumeTags, stepVars>>

NextTTL == TTLAtCreate \/ TTLAtRearm \/ Tick

SpecTTL == InitTTL /\ [][NextTTL]_vars

\* --------------------------------------------- the device, on any listing
\* Most lines of lsblk's output in the device specification.
MaxLines == 3

\* outputs of up to MaxLines lines, each with or without a model.  lsblk pads
\* the path column to its widest path: one space follows a path of the
\* greatest width in the output, two follow a path a character shorter.
DeviceListings ==
    LET Narrow == <<"/dev/nvme0n1", "/dev/nvme1n1", "/dev/nvme2n1",
                    "/dev/nvme3n1", "/dev/nvme4n1">>
        Wide == <<"/dev/nvme10n1", "/dev/nvme11n1", "/dev/nvme12n1",
                  "/dev/nvme13n1", "/dev/nvme14n1">>
    IN  UNION { { [k \in 1..n |->
                     LsblkLine(IF f[k].wide THEN Wide[k] ELSE Narrow[k],
                               IF f[k].wide \/ \A j \in 1..n : ~f[j].wide
                               THEN 1 ELSE 2,
                               f[k].model)] :
                  f \in [1..n -> [wide : BOOLEAN,
                                  model : {EbsModel, InstanceStoreModel, ""}]] } :
                n \in 0..MaxLines }

DeviceConfig ==
    NewAWSSnapshotter(
        NewConfigFromInputs([path |-> <<"/", "m", "n", "t">>,
                             wait_for_completion |-> "false",
                             volume_size |-> 1,
                             GITHUB_REF_NAME |-> TargetBranch,
                             runnerDefaultBranch |-> MainBranch]),
        0)

\* RestoreSnapshot of a blank volume that DescribeVolumes reported attached,
\* after the defensive unmount
InitDevice ==
    /\ cfg = DeviceConfig
    /\ account = <<>>
    /\ pc = "lsblk"
    /\ filters = <<>>
    /\ snapshotsOutput = <<>>
    /\ defaultBranchSnapshotsOutput = <<>>
    /\ latestSnapshot = NoSnapshot
    /\ newVolume = TheVolume
    /\ volumeIsNewAndUnformatted = TRUE
    /\ err = "nil"
    /\ actualDeviceName = suggestedDeviceName
    /\ lsblkOutput = <<>>
    /\ restoreRet = NoRet
    /\ restoreCalls = <<"DescribeSnapshots", "CreateVolume", "WaitVolumeAvailable",
                        "AttachVolume", "WaitVolumeInUse", "DescribeVolumes",
                        "umount">>
    /\ createVolumeInput = CreateVolumeInputOf(NoSnapshot, DeviceConfig)
    /\ volumeInfo = NoVolumeInfo
    /\ createRet = NoCreateRet
    /\ createCalls = <<>>
    /\ teardown = NoTeardown
    /\ volState = "in-use"
    /\ snapState = "none"
    /\ snapTags = <<>>
    /\ mounted = FALSE
    /\ hasFs = FALSE
    /\ docker = "running"
    /\ files = <<>>
    /\ saved = NoSave
    /\ loaded = NoLoad
    /\ clock = 0
    /\ snapshots = <<>>
    /\ ttl = TTLWrite(0, defaultVolumeLifeDurationMinutes, "CreateVolume")
    /\ volumeTags = commonVolumeTags(DeviceConfig, 0)
    /\ mainStep = "none"
    /\ postStep = "none"

RestoreLsblkAny == RestoreLsblkOn(DeviceListings)

NextDevice ==
    \/ RestoreLsblkAny
    \/ RestoreSaveVolumeInfo
    \/ RestoreFormat
    \/ RestoreMkdir
    \/ RestoreMount
    \/ RestoreReturnOk

SpecDevice == InitDevice /\ [][NextDevice]_vars

\* ------------------------------------- snapshots and the jobs after them
\* Jobs of one branch under one configuration, one after the other: each
\* job's restore phase queries the account, in which the snapshot of the job
\* before it is listed with the tags of its CreateSnapshot request.

\* customTags of the runner's configuration: none, tags with keys of their
\* own, and lists with a key that the tag specification then names twice
\* (an identity key, Name, or a key of the list itself).
InitTags ==
    /\ cfg \in
          { [NewConfigFromInputs([path |-> DockerDataDir,
                                  wait_for_completion |-> "false",
                                  volume_size |-> 1,
                                  GITHUB_REF_NAME |-> TargetBranch,
                                  runnerDefaultBranch |-> MainBranch])
                EXCEPT !.CustomTags = t] :
             t \in
               { <<>>,
                 << [Key |-> "team", Value |-> "ci"] >>,
                 << [Key |-> "team", Value |-> "ci"],
                    [Key |-> "owner", Value |-> "dev"] >>,
                 << [Key |-> snapshotTagKeyBranch, Value |-> MainBranch] >>,
                 << [Key |-> "team", Value |-> "ci"],
                    [Key |-> nameTagKey, Value |-> <<"c", "i">>] >>,
                 << [Key |-> "team", Value |-> "ci"],
                    [Key |-> "team", Value |-> "dev"] >> } }
    /\ pc = "main"
    /\ clock = 1
    /\ snapState = "none"
    /\ snapTags = <<>>
    /\ account = <<>>
    /\ filters = <<>>
    /\ snapshotsOutput = <<>>
    /\ defaultBranchSnapshotsOutput = <<>>
    /\ latestSnapshot = NoSnapshot
    /\ newVolume = NoVolume
    /\ volumeIsNewAndUnformatted = FALSE
    /\ err = "nil"
    /\ actualDeviceName = ""
    /\ lsblkOutput = <<>>
    /\ restoreRet = NoRet
    /\ restoreCalls = <<>>
    /\ createVolumeInput = NoInput
    /\ volumeInfo = NoVolumeInfo
    /\ createRet = NoCreateRet
    /\ createCalls = <<>>
    /\ teardown = NoTeardown
    /\ volState = "none"
    /\ mounted = FALSE
    /\ hasFs = FALSE
    /\ docker = "running"
    /\ files = <<>>
    /\ saved = NoSave
    /\ loaded = NoLoad
    /\ ttl = NoTTL
    /\ snapshots \in
          { <<>>,
            <<WithId([StartTime |-> 0, VolumeSize |-> 1, State |-> "completed",
                      Branch |-> TargetBranch], 1)>> }
    /\ volumeTags = <<>>
    /\ mainStep = "none"
    /\ postStep = "none"

\* DescribeSnapshots lists every snapshot of the account: CreateSnapshot adds
\* one and nothing in the program deletes one.
TagsDescribeSnapshots == RestoreDescribeSnapshotsOn({snapshots})

\* a snapshot whose completion was not waited for completes after the job
SnapshotCompletes ==
    /\ pc = "end"
    /\ snapState = "pending"
    /\ snapState' = "completed"
    /\ UNCHANGED <<cfg, pc, timeVars, storeLog, restoreVars, volumeInfo, createRet,
                   createCalls, teardown, snapTags, volState, hostVars, stepVars>>

\* The next job of the branch starts on a new runner, with the same inputs,
\* at a later second; the snapshot the job before initiated stays in the
\* account next to the earlier ones.
LaterJobStarts ==
    /\ pc = "end"
    /\ snapState # "none"
    /\ \A k \in DOMAIN snapshots : "Tags" \notin DOMAIN snapshots[k]
    /\ pc' = "main"
    /\ cfg' = [cfg EXCEPT !.SnapshotName = <<>>, !.VolumeName = <<>>]
    /\ clock' = clock + 1
    /\ snapshots' = Append(snapshots,
                           [SnapshotId |-> Len(snapshots) + 1,
                            StartTime |-> clock,
                            VolumeSize |-> cfg.VolumeSize,
                            State |-> snapState,
                            Branch |-> cfg.GithubRef,
                            Tags |-> snapTags])
    /\ snapState' = "none"
    /\ snapTags' = <<>>
    /\ account' = <<>>
    /\ filters' = <<>>
    /\ snapshotsOutput' = <<>>
    /\ defaultBranchSnapshotsOutput' = <<>>
    /\ latestSnapshot' = NoSnapshot
    /\ newVolume' = NoVolume
    /\ volumeIsNewAndUnformatted' = FALSE
    /\ err' = "nil"
    /\ actualDeviceName' = ""
    /\ lsblkOutput' = <<>>
    /\ restoreRet' = NoRet
    /\ restoreCalls' = <<>>
    /\ createVolumeInput' = NoInput
    /\ volumeInfo' = NoVolumeInfo
    /\ createRet' = NoCreateRet
    /\ createCalls' = <<>>
    /\ teardown' = NoTeardown
    /\ volState' = "none"
    /\ mounted' = FALSE
    /\ hasFs' = FALSE
    /\ docker' = "running"
    /\ files' = <<>>
    /\ saved' = NoSave
    /\ loaded' = NoLoad
    /\ ttl' = NoTTL
    /\ volumeTags' = <<>>
    /\ mainStep' = "none"
    /\ postStep' = "none"

NextTags ==
    \/ handleMainExecution
    \/ TagsDescribeSnapshots
    \/ RestoreSelectLatest
    \/ RestoreNoDefaultBranch
    \/ RestoreCreateVolume
    \/ RestoreWaitAvailable
    \/ RestoreAttachVolume
    \/ RestoreWaitInUse
    \/ RestoreDescribeVolumes
    \/ RestoreStopDocker
    \/ RestoreDefensiveUnmount
    \/ RestoreLsblk
    \/ RestoreSaveVolumeInfo
    \/ RestoreFormat
    \/ RestoreMkdir
    \/ RestoreMount
    \/ RestoreStartDocker
    \/ RestoreDockerInfo
    \/ RestoreReturnOk
    \/ MainStepEnds
    \/ JobSteps
    \/ handlePostExecution
    \/ CreateLoadVolumeInfo
    \/ CreatePruneAndStopDocker
    \/ CreateUnmount
    \/ CreateTagsTTL
    \/ CreateDetachVolume
    \/ CreateWaitDetached
    \/ CreateSnapshotRequest
    \/ CreateWaitCompleted
    \/ CreateDeleteVolume
    \/ PostStepEnds
    \/ SnapshotCompletes
    \/ LaterJobStarts

SpecTags == InitTags /\ [][NextTags]_vars

\* ------------------------------------------------------------------ claims
Contains(calls, op) == \E k \in 1..Len(calls) : calls[k] = op

\* op2 was issued, and after an op1
IssuedAfter(calls, op1, op2) ==
    \E j, k \in 1..Len(calls) : j < k /\ calls[j] = op1 /\ calls[k] = op2

\* C1: right after create-volume succeeded, the request was made from the
\* located snapshot iff one was located and its size S >= the target size T,
\* and for a blank volume of size T otherwise; new_volume, in the returned
\* output and in the written record, is false exactly on the from-snapshot path.
C1_ProvisionRule ==
    /\ pc = "waitAvailable" =>
          IF latestSnapshot # NoSnapshot /\ latestSnapshot.VolumeSize >= cfg.VolumeSize
          THEN /\ createVolumeInput =
                     [SnapshotId |-> latestSnapshot.SnapshotId, Size |-> 0]
               /\ ~volumeIsNewAndUnformatted
          ELSE /\ createVolumeInput = [SnapshotId |-> 0, Size |-> cfg.VolumeSize]
               /\ volumeIsNewAndUnformatted
    /\ pc \in {"mainReport", "job"} /\ restoreRet.kind = "ok" =>
          restoreRet.NewVolume = (createVolumeInput.SnapshotId = 0)
    /\ pc \in {"mainReport", "job"} /\ stateFile # NoFile /\ stateFile # Truncated =>
          UnmarshalVolumeInfo(stateFile).NewVolume = (createVolumeInput.SnapshotId = 0)

\* a volume created from a located snapshot of exactly the target size, and
\* the run returned and recorded new_volume = false
C1_Witness ==
    /\ pc = "mainReport"
    /\ restoreRet.kind = "ok"
    /\ ~restoreRet.NewVolume
    /\ stateFile # NoFile
    /\ stateFile # Truncated
    /\ createVolumeInput.SnapshotId # 0

DistinctTimes(list) ==
    \A j, k \in 1..Len(list) : j # k => list[j].StartTime # list[k].StartTime

LatestOf(list, snap) ==
    /\ \E k \in 1..Len(list) : snap = list[k]
    /\ \A k \in 1..Len(list) : list[k].StartTime <= snap.StartTime

\* C2: once the selection is made from a non-empty response of snapshots
\* with pairwise distinct creation times, listed in any order, the selected
\* snapshot is the one with the maximum creation time (primary query and
\* default-branch query alike).
C2_SelectsLatest ==
    pc = "createVolume" =>
       /\ snapshotsOutput # <<>> /\ DistinctTimes(snapshotsOutput) =>
             LatestOf(snapshotsOutput, latestSnapshot)
       /\ snapshotsOutput = <<>> /\ defaultBranchSnapshotsOutput # <<>>
              /\ DistinctTimes(defaultBranchSnapshotsOutput) =>
             LatestOf(defaultBranchSnapshotsOutput, latestSnapshot)

\* three snapshots listed with the latest in the middle, and it was selected
C2_Witness ==
    /\ pc = "createVolume"
    /\ Len(snapshotsOutput) = 3
    /\ DistinctTimes(snapshotsOutput)
    /\ snapshotsOutput[3].StartTime > snapshotsOutput[1].StartTime
    /\ latestSnapshot = snapshotsOutput[2]

\* the default branch D the runner's configuration names, distinct from B
DefaultBranchConfigured(c) ==
    /\ c.RunnerConfig.DefaultBranch # <<>>
    /\ c.RunnerConfig.DefaultBranch # c.GithubRef

\* C3 (as claimed): when the primary query returns nothing and a default
\* branch D other than the target branch B is configured, the repeated query
\* filters on branch = D and no longer on B, and when the account holds a
\* completed snapshot of D, a snapshot of D is selected for provisioning.
C3_FallbackSelectsDefaultBranch ==
    /\ pc = "selectLatestDefault" /\ DefaultBranchConfigured(cfg) =>
          \A k \in 1..Len(filters) :
             filters[k].Name = <<"tag:", snapshotTagKeyBranch>> =>
                filters[k].Values = {cfg.RunnerConfig.DefaultBranch}
    /\ pc = "createVolume" /\ snapshotsOutput = <<>> /\ DefaultBranchConfigured(cfg)
          /\ (\E k \in 1..Len(account) :
                 /\ account[k].Branch = cfg.RunnerConfig.DefaultBranch
                 /\ account[k].State = "completed") =>
          /\ latestSnapshot # NoSnapshot
          /\ latestSnapshot.Branch = cfg.RunnerConfig.DefaultBranch

AfterCreateVolume ==
    {"waitAvailable", "attachVolume", "waitInUse", "describeVolumes", "format",
     "mkdir", "mount", "startDocker", "dockerInfo"}

\* C4 (as claimed): a RestoreSnapshot that returned an error from any failure
\* point after create-volume succeeded has issued a delete-volume request.
C4_FailureAfterCreateDeletesVolume ==
    restoreRet.kind = "error" /\ restoreRet.at \in AfterCreateVolume
       /\ pc \in {"mainReport", "job"} =>
       Contains(restoreCalls, "DeleteVolume")

Last(calls) == calls[Len(calls)]

\* C5: when the wait for the attachment ran into its deadline, RestoreSnapshot
\* returned an error and the delete-volume request for the created volume is
\* the last request of the run, issued after the wait.
C5_AttachWaitTimeoutDeletesVolume ==
    restoreRet.at = "waitInUse" /\ restoreRet.cause = "timeout"
       /\ pc \in {"mainReport", "job"} =>
       /\ restoreRet.kind = "error"
       /\ Last(restoreCalls) = "DeleteVolume"
       /\ IssuedAfter(restoreCalls, "WaitVolumeInUse", "DeleteVolume")
       /\ IssuedAfter(restoreCalls, "CreateVolume", "DeleteVolume")

\* the attach wait timed out and the run has returned
C5_Witness ==
    /\ pc = "mainReport"
    /\ restoreRet.at = "waitInUse"
    /\ restoreRet.cause = "timeout"
    /\ volState = "deleted"

\* C6 (as claimed): when the wait for the created volume to become available
\* timed out or failed, RestoreSnapshot returned an error and issued a
\* delete-volume request for the volume.
C6_AvailableWaitFailureDeletesVolume ==
    restoreRet.at = "waitAvailable" /\ pc \in {"mainReport", "job"} =>
       /\ restoreRet.kind = "error"
       /\ Contains(restoreCalls, "DeleteVolume")

\* C7 (as claimed): every CreateSnapshot that returned success issued a
\* delete-volume request after it initiated the snapshot, whether it waited
\* for the snapshot or not.
C7_SuccessDeletesVolume ==
    createRet.kind = "ok" =>
       IssuedAfter(createCalls, "CreateSnapshot", "DeleteVolume")

\* C8: once CreateSnapshot has initiated the snapshot and returned, it waited
\* for the completion iff the record's new_volume is true or the option is
\* set; a successful return after waiting finds the snapshot completed, and a
\* return without waiting follows the initiation at once.
C8_WaitsForFirstSnapshotOrOption ==
    createRet.kind # "none" /\ Contains(createCalls, "CreateSnapshot")
       /\ createRet.at # "createSnapshot" =>
       IF UnmarshalVolumeInfo(stateFile).NewVolume \/ cfg.WaitForCompletion
       THEN /\ createRet.waited
            /\ Contains(createCalls, "WaitSnapshotCompleted")
            /\ createRet.kind = "ok" => snapState = "completed"
       ELSE /\ ~createRet.waited
            /\ createRet.kind = "ok"
            /\ Last(createCalls) = "CreateSnapshot"

\* the first snapshot of a blank volume was waited for although the option is off
C8_Witness ==
    /\ createRet.kind = "ok"
    /\ createRet.waited
    /\ ~cfg.WaitForCompletion
    /\ UnmarshalVolumeInfo(stateFile).NewVolume
    /\ snapState = "completed"

\* C9 (as claimed): after a RestoreSnapshot that returned an error, the state
\* store holds no VolumeRecord written by that run.
C9_NoRecordAfterFailedRestore ==
    restoreRet.kind = "error" => stateFile = NoFile

\* C10 (as claimed): a phase that returned a fatal error ends in a failed CI
\* step, never in a step reported as successful.
C10_FatalErrorFailsStep ==
    /\ mainStep # "none" /\ restoreRet.kind = "error" => mainStep = "failure"
    /\ postStep # "none" /\ createRet.kind = "error" => postStep = "failure"

\* C11: when the VolumeRecord of the mount point is missing or does not parse,
\* CreateSnapshot has returned a fatal error from the load, and it issued no
\* host command and no cloud operation and initiated no snapshot.
C11_UnreadableRecordStopsCreate ==
    loaded # NoLoad /\ (stateFile = NoFile \/ stateFile = Truncated) =>
       /\ pc \in {"postReport", "end"}
       /\ createRet.kind = "error"
       /\ createRet.at = "loadVolumeInfo"
       /\ createCalls = <<>>
       /\ snapState = "none"

\* the create phase found a record that does not parse, after a restore that
\* attached the volume
C11_Witness ==
    /\ loaded.err = "unmarshal"
    /\ stateFile = Truncated
    /\ createRet.kind = "error"
    /\ volState = "in-use"

\* C12: when the mount point is under the engine's data directory and the
\* probe after the mount failed, RestoreSnapshot ran the unmount after the
\* probe and returned an error; when that unmount succeeded the volume is not
\* mounted when the phase returns.
C12_FailedProbeUnmounts ==
    pc \in {"mainReport", "job"} /\ restoreRet.at = "dockerInfo" =>
       /\ IsDockerPath(cfg.Path)
       /\ restoreRet.kind = "error"
       /\ IssuedAfter(restoreCalls, "docker system info", "umount")
       /\ restoreRet.cause = "probe failed, unmounted" => ~mounted

\* the probe failed on a mounted volume and the unmount succeeded
C12_Witness ==
    /\ pc = "mainReport"
    /\ restoreRet.at = "dockerInfo"
    /\ restoreRet.cause = "probe failed, unmounted"
    /\ IssuedAfter(restoreCalls, "mount", "docker system info")
    /\ ~mounted

\* the account lists no completed snapshot of the target branch or of the
\* runner's default branch
NoCompletedSnapshot(snaps, c) ==
    \A k \in 1..Len(snaps) :
       \/ snaps[k].State # "completed"
       \/ snaps[k].Branch \notin {c.GithubRef, c.RunnerConfig.DefaultBranch}

\* C13: end to end, in a job of the action (its Config built by
\* NewConfigFromInputs): when neither the target branch nor the default branch
\* has a completed snapshot, no snapshot is selected and the volume is created
\* blank with new_volume = true; a restore that then ends without error
\* formatted the volume and mounted it afterwards; and a create phase that then
\* ends without error read that same volume from the record, created the
\* snapshot from it and requested its deletion after the snapshot.
C13_BlankVolumeEndToEnd ==
    [cfg EXCEPT !.SnapshotName = <<>>, !.VolumeName = <<>>]
        \in {NewConfigFromInputs(i) : i \in ActionInputs} =>
    /\ pc = "createVolume" /\ NoCompletedSnapshot(account, cfg) =>
          latestSnapshot = NoSnapshot
    /\ pc = "waitAvailable" /\ latestSnapshot = NoSnapshot =>
          /\ createVolumeInput = [SnapshotId |-> 0, Size |-> cfg.VolumeSize]
          /\ volumeIsNewAndUnformatted
    /\ restoreRet.kind = "ok" /\ createVolumeInput.SnapshotId = 0 =>
          /\ restoreRet.NewVolume
          /\ IssuedAfter(restoreCalls, "CreateVolume", "mkfs.ext4")
          /\ IssuedAfter(restoreCalls, "mkfs.ext4", "mount")
          /\ pc \in {"mainReport", "job"} => mounted /\ hasFs
    /\ restoreRet.kind = "ok" /\ createVolumeInput.SnapshotId = 0
          /\ createRet.kind = "ok" =>
          /\ loaded.info.VolumeID = restoreRet.VolumeID
          /\ loaded.info.NewVolume
          /\ IssuedAfter(createCalls, "DetachVolume", "CreateSnapshot")
          /\ IssuedAfter(createCalls, "CreateSnapshot", "DeleteVolume")
          /\ snapState = "completed"

\* both phases of a job of the action ended without error on a blank volume,
\* the option to wait being off, and the volume is deleted
C13_Witness ==
    /\ cfg.DefaultBranch = <<>>
    /\ restoreRet.kind = "ok"
    /\ restoreRet.NewVolume
    /\ createRet.kind = "ok"
    /\ ~cfg.WaitForCompletion
    /\ volState = "deleted"

\* C14: a record that saveVolumeInfo wrote and loadVolumeInfo then read for
\* the same mount point comes back with the same volume id, device name,
\* mount point and new-volume flag, a false flag (absent from the file)
\* included.
C14_RecordRoundTrip ==
    loaded # NoLoad /\ saved.outcome = "written"
       /\ loaded.mountPoint = saved.info.MountPoint =>
       /\ loaded.err = "nil"
       /\ loaded.info.VolumeID = saved.info.VolumeID
       /\ loaded.info.DeviceName = saved.info.DeviceName
       /\ loaded.info.MountPoint = saved.info.MountPoint
       /\ loaded.info.NewVolume = saved.info.NewVolume

\* a record with new_volume = false and a mount point that json escapes was
\* written over a record of a blank volume, without the flag, and read back
C14_Witness ==
    /\ loaded.err = "nil"
    /\ saved.outcome = "written"
    /\ loaded.mountPoint = saved.info.MountPoint
    /\ ~saved.info.NewVolume
    /\ "new_volume" \notin DOMAIN ReadFile(files, saved.path)
    /\ ReadFile(files, saved.path).mount_point # saved.info.MountPoint

\* a path as filepath.Clean leaves it: no empty segment, no trailing slash
\* except on the root
IsCleanPath(p) ==
    /\ \A i \in 1..(Len(p) - 1) : ~(p[i] = "/" /\ p[i + 1] = "/")
    /\ Len(p) > 1 => p[Len(p)] # "/"

\* C15 (as claimed): no two distinct absolute mount points map to the same
\* state-file path, even among the paths that have no redundant slash.
C15_StatePathInjective ==
    saved # NoSave /\ loaded # NoLoad
       /\ IsCleanPath(saved.info.MountPoint) /\ IsCleanPath(loaded.mountPoint)
       /\ saved.info.MountPoint # loaded.mountPoint =>
       saved.path # loaded.path

IsNumeric(s) == Len(s) > 0 /\ \A i \in 1..Len(s) : \E d \in 1..10 : Digits[d] = s[i]

RECURSIVE ParseInt(_)
ParseInt(s) ==
    IF s = <<>> THEN 0
    ELSE 10 * ParseInt(SubSeq(s, 1, Len(s) - 1))
         + (CHOOSE d \in 1..10 : Digits[d] = s[Len(s)]) - 1

\* C16: every TTL tag value written is a decimal number of epoch seconds
\* strictly greater than the time of the write: the write time plus 20
\* minutes on the CreateVolume request, plus 10 minutes on the re-arm before
\* the detach.
C16_TTLInTheFuture ==
    ttl # NoTTL =>
       /\ IsNumeric(ttl.value)
       /\ ParseInt(ttl.value) > ttl.writtenAt
       /\ ttl.by = "CreateVolume" => ParseInt(ttl.value) = ttl.writtenAt + 20 * 60
       /\ ttl.by = "CreateTags" => ParseInt(ttl.value) = ttl.writtenAt + 10 * 60

\* the tag was re-armed at a later second than the clock started with, and
\* time has passed since
C16_Witness ==
    /\ ttl.by = "CreateTags"
    /\ ttl.writtenAt > 0
    /\ clock > ttl.writtenAt
    /\ ParseInt(ttl.value) > clock

\* the steps of RestoreSnapshot that follow the write of the record
StepsAfterSave == {"format", "mkdir", "mount", "startDocker", "dockerInfo"}

\* C17: a failed write of the record does not make RestoreSnapshot fail: it
\* never returns at that step, the remaining steps run, an error can only
\* come from one of them, and a success returns with the volume mounted.
C17_SaveFailureNotFatal ==
    saved # NoSave /\ saved.outcome # "written" =>
       /\ restoreRet.at # "saveVolumeInfo"
       /\ restoreRet = NoRet => pc \in StepsAfterSave \cup {"restoreReturn"}
       /\ restoreRet.kind = "error" => restoreRet.at \in StepsAfterSave
       /\ restoreRet.kind = "ok" /\ pc \in {"mainReport", "job"} =>
             mounted /\ IssuedAfter(restoreCalls, "lsblk", "mount")

\* the record could not be written and RestoreSnapshot returned success with
\* the volume mounted and no state file
C17_Witness ==
    /\ pc = "mainReport"
    /\ restoreRet.kind = "ok"
    /\ saved.outcome = "notWritten"
    /\ stateFile = NoFile
    /\ mounted

\* the paths of the state store that hold a record of mount point m
RecordsOf(fs, m) ==
    {p \in DOMAIN fs : fs[p] # Truncated /\ UnmarshalVolumeInfo(fs[p]).MountPoint = m}

\* C18: whatever saves and loads happened, the state store holds at most one
\* record per mount point, and after a write the file holds exactly the
\* record written: nothing of the record it replaced remains.
C18_OneRecordPerMountPoint ==
    /\ \A m \in StoreMountPoints \cup MountPoints :
          Cardinality(RecordsOf(files, m)) <= 1
    /\ saved.outcome = "written" =>
          ReadFile(files, saved.path) = MarshalVolumeInfo(saved.info)

\* the record of a blank volume was replaced by the record of another volume
\* restored from a snapshot: the new_volume key is gone from the file
C18_Witness ==
    /\ saved.outcome = "written"
    /\ saved.before # NoFile /\ saved.before # Truncated
    /\ "new_volume" \in DOMAIN saved.before
    /\ saved.before.volume_id # saved.info.VolumeID
    /\ DecodeString(saved.before.mount_point) = saved.info.MountPoint
    /\ "new_volume" \notin DOMAIN ReadFile(files, saved.path)

\* C19 (as claimed): a RestoreSnapshot that returned success issued no
\* DeleteVolume request, whichever of its non-fatal steps failed.
C19_SuccessIssuesNoDelete ==
    restoreRet.kind = "ok" => ~Contains(restoreCalls, "DeleteVolume")

\* RestoreSnapshot mounted the volume: it returned success, or failed at a
\* docker step that follows the mount
RestoreMounted == restoreRet.kind = "ok" \/ restoreRet.at \in {"startDocker", "dockerInfo"}

\* C20 (as claimed): the create phase requests a snapshot only of a volume
\* that the restore phase mounted.
C20_SnapshotOnlyOfMountedVolume ==
    Contains(createCalls, "CreateSnapshot") => RestoreMounted

\* C21: every snapshot RestoreSnapshot selects in a job of the action is a
\* snapshot of the account in status completed, and a CreateVolume request
\* that names a snapshot names the selected one.  (The repeated query of the
\* default branch is never issued in such a job: its guard reads a field of
\* Config that stays empty, so DescribeSnapshots is called once at most.)
C21_SelectedSnapshotCompleted ==
    /\ latestSnapshot # NoSnapshot => latestSnapshot.State = "completed"
    /\ pc = "createVolume" /\ latestSnapshot # NoSnapshot =>
          \E k \in 1..Len(account) : account[k] = latestSnapshot
    /\ pc = "waitAvailable" /\ createVolumeInput.SnapshotId # 0 =>
          /\ latestSnapshot # NoSnapshot
          /\ createVolumeInput.SnapshotId = latestSnapshot.SnapshotId
    /\ Cardinality({k \in 1..Len(restoreCalls) :
                       restoreCalls[k] = "DescribeSnapshots"}) <= 1

\* the account holds a completed snapshot of the target branch and a later
\* pending one, and the completed one was selected
C21_Witness ==
    /\ pc = "createVolume"
    /\ Len(account) = 2
    /\ account[1].Branch = cfg.GithubRef /\ account[1].State = "completed"
    /\ account[2].Branch = cfg.GithubRef /\ account[2].State = "pending"
    /\ account[2].StartTime > account[1].StartTime
    /\ latestSnapshot = account[1]

\* the CreateVolume request asked for a blank volume
CreatedBlank == createVolumeInput # NoInput /\ createVolumeInput.SnapshotId = 0

\* C22: mkfs.ext4 is run iff the volume was created blank, and before the
\* mount: a volume created from a snapshot is never formatted, a blank one
\* is formatted before its mount point is made, and a failed format returns
\* an error with no mount attempted.
C22_FormatIffBlank ==
    /\ Contains(restoreCalls, "mkfs.ext4") => CreatedBlank
    /\ pc = "format" => volumeIsNewAndUnformatted /\ CreatedBlank
    /\ Contains(restoreCalls, "mkdir") /\ CreatedBlank =>
          IssuedAfter(restoreCalls, "mkfs.ext4", "mkdir")
    /\ Contains(restoreCalls, "mount") /\ CreatedBlank =>
          IssuedAfter(restoreCalls, "mkfs.ext4", "mount")
    /\ restoreRet.at = "format" =>
          /\ restoreRet.kind = "error"
          /\ ~Contains(restoreCalls, "mkdir") /\ ~Contains(restoreCalls, "mount")
          /\ pc \in {"mainReport", "job"} => ~mounted

\* a volume created from a snapshot was mounted without a format
C22_Witness ==
    /\ pc = "mainReport"
    /\ restoreRet.kind = "ok"
    /\ ~CreatedBlank
    /\ Contains(restoreCalls, "mount")
    /\ ~Contains(restoreCalls, "mkfs.ext4")
    /\ mounted

\* C23: a failed umount makes CreateSnapshot return an error iff df then
\* succeeded and its output names the mount point; when df failed or names
\* another filesystem the flow goes on to the TTL re-arm and the detach.
C23_UnmountAbortsIffDfListsMount ==
    /\ createRet.at = "unmount" =>
          /\ createRet.kind = "error"
          /\ teardown.umount = "failed" /\ teardown.df = "lists mount point"
          /\ ~Contains(createCalls, "CreateTags")
          /\ ~Contains(createCalls, "DetachVolume")
    /\ teardown.umount = "failed" /\ teardown.df = "lists mount point" =>
          createRet.at = "unmount"
    /\ teardown.umount = "failed" /\ teardown.df # "lists mount point" =>
          /\ createRet = NoCreateRet
          /\ pc \in {"createTags", "detachVolume"}
          /\ pc = "detachVolume" => Last(createCalls) = "CreateTags"

\* umount failed, df named another filesystem, and the flow is at the detach
\* request after the re-arm of the TTL
C23_Witness ==
    /\ pc = "detachVolume"
    /\ teardown.umount = "failed"
    /\ teardown.df = "other filesystem"
    /\ teardown.createTags = "ok"

\* C24 (as claimed): the detach request is never reached while the volume's
\* filesystem is still mounted at the mount point.
C24_DetachOnlyWhenUnmounted ==
    pc = "detachVolume" \/ Contains(createCalls, "DetachVolume") => ~mounted

\* the operations ops were issued in this order (others may lie between)
RECURSIVE InOrder(_, _)
InOrder(calls, ops) ==
    IF ops = <<>> THEN TRUE
    ELSE IF calls = <<>> THEN FALSE
    ELSE IF Head(calls) = Head(ops) THEN InOrder(Tail(calls), Tail(ops))
    ELSE InOrder(Tail(calls), ops)

\* C25: CreateSnapshot goes through unmount, TTL re-arm, detach request,
\* detach wait and snapshot request in this order: the snapshot is requested
\* only after the wait reported the volume available, and after a failed
\* detach request or detach wait no snapshot is requested.
C25_TeardownOrder ==
    /\ pc = "createSnapshot" =>
          volState = "available" /\ Last(createCalls) = "WaitVolumeAvailable"
    /\ Contains(createCalls, "CreateSnapshot") =>
          InOrder(createCalls, <<"umount", "CreateTags", "DetachVolume",
                                 "WaitVolumeAvailable", "CreateSnapshot">>)
    /\ createRet.at \in {"detachVolume", "waitDetached"} =>
          /\ createRet.kind = "error"
          /\ ~Contains(createCalls, "CreateSnapshot")
          /\ snapState = "none"

\* the detach wait ran into its deadline: CreateSnapshot returned with the
\* volume still detaching and no snapshot
C25_Witness ==
    /\ createRet.at = "waitDetached"
    /\ createRet.cause = "timeout"
    /\ volState = "detaching"
    /\ InOrder(createCalls, <<"umount", "CreateTags", "DetachVolume",
                              "WaitVolumeAvailable">>)
    /\ snapState = "none"

\* C26: CreateSnapshot requests the deletion of the volume only after the
\* wait reported its snapshot completed; when the snapshot request or the
\* completion wait failed, and when the completion is not waited for, no
\* deletion is requested and the volume stays.
C26_DeleteOnlyAfterCompleted ==
    /\ pc = "deleteVolume" => snapState = "completed"
    /\ Contains(createCalls, "DeleteVolume") =>
          /\ snapState = "completed"
          /\ InOrder(createCalls, <<"CreateSnapshot", "WaitSnapshotCompleted",
                                    "DeleteVolume">>)
    /\ createRet.at \in {"createSnapshot", "waitCompleted"}
          \/ (createRet.kind = "ok" /\ ~createRet.waited) =>
          /\ ~Contains(createCalls, "DeleteVolume")
          /\ volState = "available"

\* the completion wait failed: the snapshot is pending and the detached
\* volume was kept
C26_Witness ==
    /\ createRet.at = "waitCompleted"
    /\ createRet.kind = "error"
    /\ snapState = "pending"
    /\ volState = "available"
    /\ Last(createCalls) = "WaitSnapshotCompleted"

\* how many times op was issued
Count(calls, op) == Cardinality({k \in 1..Len(calls) : calls[k] = op})

\* what was issued after the first op
After(calls, op) ==
    LET k == CHOOSE j \in 1..Len(calls) :
                 calls[j] = op /\ \A i \in 1..(j - 1) : calls[i] # op
    IN  SubSeq(calls, k + 1, Len(calls))

\* a phase that returned at a wait returned an error, waited once, and
\* issued nothing after the wait but the cleanup
EndedAtWait(ret, calls, wait, cleanup) ==
    /\ ret.kind = "error"
    /\ Count(calls, wait) = 1
    /\ After(calls, wait) \in {<<>>} \cup cleanup

\* C27: when one of the four waits (volume available after creation, volume
\* attached, volume available after the detach, snapshot completed) times
\* out or fails, the phase returns an error, does not repeat the wait and
\* runs none of the steps that follow it: no attach, no mount, no snapshot
\* request, no deletion of the snapshotted volume.  The step after a wait is
\* reached only with what the wait waited for.
C27_FailedWaitEndsPhase ==
    /\ pc = "attachVolume" => volState = "available"
    /\ pc = "describeVolumes" => volState = "in-use"
    /\ pc = "createSnapshot" => volState = "available"
    /\ pc = "deleteVolume" => snapState = "completed"
    /\ restoreRet.at = "waitAvailable" /\ restoreRet.cause \in {"timeout", "failure"} =>
          /\ EndedAtWait(restoreRet, restoreCalls, "WaitVolumeAvailable",
                         {<<"DeleteVolume">>})
          /\ ~Contains(restoreCalls, "AttachVolume")
    /\ restoreRet.at = "waitInUse" /\ restoreRet.cause \in {"timeout", "failure"} =>
          /\ EndedAtWait(restoreRet, restoreCalls, "WaitVolumeInUse",
                         {<<"DeleteVolume">>})
          /\ ~Contains(restoreCalls, "mount")
          /\ pc \in {"mainReport", "job"} => ~mounted
    /\ createRet.at = "waitDetached" /\ createRet.cause \in {"timeout", "failure"} =>
          /\ EndedAtWait(createRet, createCalls, "WaitVolumeAvailable", {})
          /\ ~Contains(createCalls, "CreateSnapshot")
    /\ createRet.at = "waitCompleted" /\ createRet.cause \in {"timeout", "failure"} =>
          /\ EndedAtWait(createRet, createCalls, "WaitSnapshotCompleted", {})
          /\ ~Contains(createCalls, "DeleteVolume")

\* the wait for the created volume failed on the API: RestoreSnapshot
\* returned with the wait as its last operation and the volume unattached
C27_Witness ==
    /\ pc = "mainReport"
    /\ restoreRet.at = "waitAvailable"
    /\ restoreRet.cause = "failure"
    /\ Last(restoreCalls) = "WaitVolumeAvailable"
    /\ volState = "creating"

\* C28: when the caller's context is cancelled during a wait, the phase
\* returns an error at that wait and runs none of the steps after it; the
\* only request it still issues is the DeleteVolume of RestoreSnapshot's
\* deferred cleanup, and CreateSnapshot issues none.
C28_CancelledWaitEndsPhase ==
    /\ restoreRet.cause = "cancelled" =>
          /\ restoreRet.kind = "error"
          /\ restoreRet.at \in {"waitAvailable", "waitInUse"}
          /\ restoreRet.at = "waitAvailable" =>
                After(restoreCalls, "WaitVolumeAvailable") \in {<<>>, <<"DeleteVolume">>}
          /\ restoreRet.at = "waitInUse" =>
                After(restoreCalls, "WaitVolumeInUse") \in {<<>>, <<"DeleteVolume">>}
          /\ ~Contains(restoreCalls, "mount") /\ saved = NoSave
    /\ createRet.cause = "cancelled" =>
          /\ createRet.kind = "error"
          /\ createRet.at \in {"waitDetached", "waitCompleted"}
          /\ createRet.at = "waitDetached" =>
                After(createCalls, "WaitVolumeAvailable") = <<>>
          /\ createRet.at = "waitCompleted" =>
                After(createCalls, "WaitSnapshotCompleted") = <<>>

\* the context was cancelled during the attach wait: RestoreSnapshot
\* returned an error and its last request is the DeleteVolume of the cleanup
C28_Witness ==
    /\ pc = "mainReport"
    /\ restoreRet.at = "waitInUse"
    /\ restoreRet.cause = "cancelled"
    /\ restoreRet.kind = "error"
    /\ Last(restoreCalls) = "DeleteVolume"

\* one of the steps whose failure CreateSnapshot only logs has failed
TeardownStepFailed ==
    \/ teardown.du = "failed"
    \/ teardown.prune = "failed"
    \/ teardown.stop = "failed"
    \/ teardown.createTags = "failed"

\* C29: a failure of the disk-usage display, of the prune, of the stop of the
\* service or of the TTL re-arm never makes CreateSnapshot return: unless the
\* unmount failed with df still listing the mount point, the flow goes on and
\* is at the detach request once the re-arm was attempted.
C29_TeardownFailuresNotFatal ==
    /\ createRet.at \notin {"pruneDocker", "createTags"}
    /\ TeardownStepFailed =>
          /\ createRet.kind = "error" => createRet.at = "unmount"
          /\ createRet = NoCreateRet => pc \in {"unmount", "createTags", "detachVolume"}
          /\ teardown.createTags # "none" =>
                createRet = NoCreateRet /\ pc = "detachVolume"

\* all four failed and CreateSnapshot is at the detach request
C29_Witness ==
    /\ pc = "detachVolume"
    /\ teardown.du = "failed"
    /\ teardown.prune = "failed"
    /\ teardown.stop = "failed"
    /\ teardown.createTags = "failed"
    /\ createRet = NoCreateRet

\* the host's entry that a line prints: the path is the line's first word,
\* and the model is its last word when one follows the padding of the path
\* column ("" is no model)
LsblkEntry(line) ==
    [PATH |-> line[1],
     MODEL |-> IF Len(line) > 1 /\ line[Len(line)] # " "
               THEN line[Len(line)] ELSE ""]

\* the lines whose entry has the block store's model
BlockStoreLines(listing) ==
    {k \in 1..Len(listing) : LsblkEntry(listing[k]).MODEL = EbsModel}

\* the path of the last such entry, or the device the API reported
ExpectedDevice(listing, apiDevice) ==
    IF BlockStoreLines(listing) = {} THEN apiDevice
    ELSE LsblkEntry(listing[CHOOSE k \in BlockStoreLines(listing) :
                               \A j \in BlockStoreLines(listing) : j <= k]).PATH

\* C30 (as claimed): once lsblk ran, the device RestoreSnapshot formats and
\* mounts, and the one it writes in the record, is the path of the last
\* entry the host listed whose model is the block store's, or the device of
\* the attachment that DescribeVolumes reported when no entry has that model.
C30_DeviceIsLastBlockStoreEntry ==
    /\ pc \in StepsAfterSave \cup {"saveVolumeInfo", "restoreReturn"} =>
          actualDeviceName = ExpectedDevice(lsblkOutput, suggestedDeviceName)
    /\ pc \in StepsAfterSave \cup {"restoreReturn"} =>
          saved.info.DeviceName = ExpectedDevice(lsblkOutput, suggestedDeviceName)
    /\ pc \in StepsAfterSave \cup {"restoreReturn"} /\ saved.outcome = "written" =>
          stateFile.device_name = ExpectedDevice(lsblkOutput, suggestedDeviceName)

\* ------------------------------------------------------------------- C31
HasTag(tags, key, value) ==
    \E k \in 1..Len(tags) : tags[k].Key = key /\ tags[k].Value = value

TagValues(tags, key) ==
    {tags[k].Value : k \in {j \in 1..Len(tags) : tags[j].Key = key}}

\* C31: a volume RestoreSnapshot created, from a snapshot or blank, carries
\* the five identity tags of the configuration, every custom tag, a Name tag
\* and exactly one TTL tag, a decimal number; until the tag is re-armed its
\* value is the second of the creation plus 20 minutes.
C31_CreatedVolumeFullyTagged ==
    volState # "none" =>
       /\ HasTag(volumeTags, snapshotTagKeyVersion, cfg.Version)
       /\ HasTag(volumeTags, snapshotTagKeyRepository, cfg.GithubRepository)
       /\ HasTag(volumeTags, snapshotTagKeyBranch, cfg.GithubRef)
       /\ HasTag(volumeTags, snapshotTagKeyArch, arch)
       /\ HasTag(volumeTags, snapshotTagKeyPlatform, platform)
       /\ \A k \in 1..Len(cfg.CustomTags) :
             HasTag(volumeTags, cfg.CustomTags[k].Key, cfg.CustomTags[k].Value)
       /\ TagValues(volumeTags, nameTagKey) # {}
       /\ \A v \in TagValues(volumeTags, nameTagKey) :
             HasPrefix(v, <<"runs-on-volume-">> \o sanitizedGithubRef(cfg))
       /\ Cardinality(TagValues(volumeTags, ttlTagKey)) = 1
       /\ \A v \in TagValues(volumeTags, ttlTagKey) :
             /\ IsNumeric(v)
             /\ ttl.by = "CreateVolume" => ParseInt(v) = ttl.writtenAt + 20 * 60

\* a volume was just created from a snapshot, a custom tag is configured and
\* the volume's TTL tag is the one of the CreateVolume request
C31_Witness ==
    /\ pc = "waitAvailable"
    /\ volState = "creating"
    /\ createVolumeInput.SnapshotId # 0
    /\ Len(cfg.CustomTags) > 0
    /\ ttl.by = "CreateVolume"
    /\ TagValues(volumeTags, ttlTagKey) = {TTLTagValue(clock, 20)}

\* ------------------------------------------------------------------- C32
\* C32: the snapshot a job initiated carries, for every tag filter of the
\* primary query under the job's configuration, the tag of the filter's key
\* with the filter's value; and when a later job of the same configuration
\* has queried the account in which that snapshot is completed, the
\* snapshot is in the query's response.
C32_CreatedSnapshotMatchesPrimaryQuery ==
    /\ snapState # "none" =>
          \A k \in 1..Len(PrimaryFilters(cfg)) :
             Len(PrimaryFilters(cfg)[k].Name) = 2 =>
                \E v \in PrimaryFilters(cfg)[k].Values :
                   /\ HasTag(snapTags, PrimaryFilters(cfg)[k].Name[2], v)
                   /\ TagValues(snapTags, PrimaryFilters(cfg)[k].Name[2]) = {v}
    /\ \A k \in 1..Len(account) :
          /\ pc = "selectLatest"
          /\ "Tags" \in DOMAIN account[k]
          /\ account[k].State = "completed"
          => \E j \in 1..Len(snapshotsOutput) : snapshotsOutput[j] = account[k]

\* a later job's primary query, under a configuration with two custom tags,
\* has answered with the completed snapshot of the job before it, which the
\* account holds next to an earlier snapshot and whose Name is the one the
\* earlier job's process gave it
C32_Witness ==
    /\ pc = "selectLatest"
    /\ Len(cfg.CustomTags) = 2
    /\ Len(account) = 2
    /\ "Tags" \notin DOMAIN account[1]
    /\ "Tags" \in DOMAIN account[2]
    /\ account[2].State = "completed"
    /\ TagValues(account[2].Tags, nameTagKey) # {cfg.SnapshotName}
    /\ \A k \in 1..Len(cfg.CustomTags) :
          HasTag(account[2].Tags, cfg.CustomTags[k].Key, cfg.CustomTags[k].Value)
    /\ snapshotsOutput = <<account[2]>>

\* ------------------------------------------------------------------- C33
\* C33 (as claimed): when RestoreSnapshot has returned, with its result or
\* with a fatal error, after `systemctl stop docker` stopped the service for
\* a mount point under the engine's data directory, `systemctl start docker`
\* was issued after the stop and before the return.
C33_ServiceStartedBeforeReturn ==
    /\ pc = "mainReport"
    /\ IsDockerPath(cfg.Path)
    /\ Contains(restoreCalls, "systemctl stop docker")
    /\ docker = "stopped"
    => IssuedAfter(restoreCalls, "systemctl stop docker", "systemctl start docker")

====
